---- MODULE Spec2Model ----
(***************************************************************************)
(* Fleet manager: the weekly ledger (WeeklyData) and the vehicle directory *)
(* as kept by the Prisma-backed Express routes.                            *)
(*                                                                         *)
(* The store is the two tables Vehicle and WeeklyData with the foreign key *)
(* WeeklyData.vehicleId -> Vehicle.id (ON DELETE CASCADE) and the unique   *)
(* index on (vehicleId, weekStartDate).  POST /api/weekly-data is a        *)
(* sequence of awaited database calls; every await is a point where other  *)
(* requests run, so the handler is modelled as one action per database     *)
(* call.  Handlers that make a single database call are one action.        *)
(*                                                                         *)
(* Numbers: amounts are integers.  profitMargin is the exact quotient, kept *)
(* as a fraction <<numerator, denominator>> in lowest terms.               *)
(* Optional values (undefined in a request body, NULL in a column) are     *)
(* None == <<>>, a present value x is Some(x) == <<x>>.                    *)
(* Not modelled: the timestamps submittedAt / createdAt / updatedAt.       *)
(*                                                                         *)
(* The read side (GET /api/dashboard/stats, GET /api/dashboard/trends and  *)
(* the weekly Excel report) is one request at a time, held in read, again  *)
(* one action per database call.  A findMany without orderBy returns its   *)
(* rows in any order.  Dates are days and day 1 is a Monday; the server's  *)
(* week runs from Monday to Sunday.  The report's cells are modelled by    *)
(* their values; titles, colours and number formats are not.               *)
(***************************************************************************)
EXTENDS Integers, Sequences, FiniteSets, TLC

----------------------------------------------------------------------------
(* Bounds of the model *)

\* at most MaxVehicles vehicle ids are in use at a time
MaxVehicles == 2
\* at most MaxEntries WeeklyData ids are in use at a time
MaxEntries == 2
\* dates are the days 1..MaxDate
MaxDate == 2
\* the six raw amounts of a ledger request add up to at most MaxTotal
MaxTotal == 2
\* a trend request asks for at most MaxWeeks weeks, or for the default
MaxWeeks == 3
\* at most MaxTokens password-reset tokens are generated
MaxTokens == 2
\* the clock runs from hour 0 to hour MaxClock
MaxClock == 2

\* the request slots: two POST /api/weekly-data requests can be in flight
Procs == {1, 2}

None == <<>>
Some(x) == <<x>>

VehicleRefs == 1..MaxVehicles
Dates == 1..MaxDate

----------------------------------------------------------------------------
(* Request bodies of POST /api/weekly-data *)

\* the fields the express-validator chain looks at
ValidatedFields ==
  {"vehicleId", "weekStartDate", "weekEndDate", "cashCollected", "onlineEarnings",
   "dieselExpense", "tollsParking", "maintenanceRepairs", "otherExpenses"}

\* A body whose fields all pass the validators: vehicle 1, week 2..2, all
\* amounts 0, no optional field, no derived value supplied.
\* invalid is the set of fields whose value fails its validator (an empty
\* vehicleId, a date that is not ISO 8601, an amount that is not numeric).
BaseBody ==
  [vehicleId |-> 1, weekStartDate |-> 2, weekEndDate |-> 2,
   cashCollected |-> 0, onlineEarnings |-> 0,
   dieselExpense |-> 0, tollsParking |-> 0, maintenanceRepairs |-> 0, otherExpenses |-> 0,
   totalTrips |-> None, totalDistance |-> None, averageRating |-> None, notes |-> None,
   totalRevenue |-> None, totalDeductions |-> None, netProfit |-> None, profitMargin |-> None,
   invalid |-> {}, user |-> "u1"]

WithAmounts(b, c, o, d, t, m, x) ==
  [b EXCEPT !.cashCollected = c, !.onlineEarnings = o, !.dieselExpense = d,
            !.tollsParking = t, !.maintenanceRepairs = m, !.otherExpenses = x]

----------------------------------------------------------------------------
(* Derived fields, as computed by the handler *)

Abs(n) == IF n < 0 THEN -n ELSE n

RECURSIVE GCD(_, _)
GCD(a, b) == IF b = 0 THEN a ELSE GCD(b, a % b)

\* the number n / d (d > 0) as a fraction in lowest terms
Frac(n, d) ==
  LET g == GCD(Abs(n), d)
      q == Abs(n) \div g
  IN  <<IF n < 0 THEN -q ELSE q, d \div g>>

Zero == Frac(0, 1)

CalcTotalRevenueFromSupplied(b) ==
  IF b.totalRevenue # None THEN b.totalRevenue[1] ELSE b.cashCollected + b.onlineEarnings

CalcTotalRevenue(b) == b.cashCollected + b.onlineEarnings

CalcTotalDeductionsNoOther(b) ==
  b.dieselExpense + b.tollsParking + b.maintenanceRepairs

CalcTotalDeductions(b) ==
  b.dieselExpense + b.tollsParking + b.maintenanceRepairs + b.otherExpenses

CalcNetProfit(b) == CalcTotalRevenue(b) - CalcTotalDeductions(b)

\* totalRevenue > 0 ? (netProfit / totalRevenue) * 100 : 0
CalcProfitMargin(b) ==
  IF CalcTotalRevenue(b) > 0
  THEN Frac(CalcNetProfit(b) * 100, CalcTotalRevenue(b))
  ELSE Zero

----------------------------------------------------------------------------
(* The store *)

VARIABLES
  vehicles,       \* table Vehicle: id -> [vehicleNumber, status]
  weeklyData,     \* table WeeklyData: id -> row
  pc,             \* per request slot: where the POST handler stands
  req,            \* per request slot: the request body
  existingData,   \* per request slot: id found by findFirst, 0 for null
  resp,           \* per request slot: the response sent
  replaced,       \* per request slot (history): the row as it was before the update
  users,          \* table User: the ids of the accounts
  read,           \* the read-side request (statistics, trend, report) in progress
  vreq,           \* per request slot: the request to /api/vehicles in progress
  accounts,       \* table User: password, resetToken and resetTokenExpiry of each account
  authReq,        \* per request slot: the account request in progress (/api/auth,
                  \* /api/data-subject/delete-account)
  clock,          \* the time of day, in hours
  issued          \* the number of reset tokens generated so far

vars ==
  <<vehicles, weeklyData, pc, req, existingData, resp, replaced, users, read,
    vreq, accounts, authReq, clock, issued>>

\* the state of the vehicle and account routes
routeVars == <<vreq, accounts, authReq, clock, issued>>

\* the state of the ledger routes
ledgerVars == <<weeklyData, pc, req, existingData, resp, replaced, users, read>>

NoResp == [status |-> 0, error |-> "none", data |-> None]

\* the accounts that exist at the start; every request body names "u1"
Users == {"u1", "u2"}

\* no read-side request is in progress
NoRead == [op |-> "none"]

\* no request to /api/vehicles is in progress in the slot
NoVehicleReq == [op |-> "none"]

\* no account request is in progress in the slot
NoAuthReq == [op |-> "none"]

\* bcrypt.hash(password, salt)
Bcrypt(password) == <<"bcrypt", password>>

\* an account that has not asked for a password reset
NewAccount == [password |-> Bcrypt("secret"), resetToken |-> None, resetTokenExpiry |-> None]

\* the route state at the start: no request, no reset token
InitRoutes ==
  /\ vreq = [p \in Procs |-> NoVehicleReq]
  /\ accounts = [u \in Users |-> NewAccount]
  /\ authReq = [p \in Procs |-> NoAuthReq]
  /\ clock = 0
  /\ issued = 0

\* the ids of the rows with the given key
RowsWithKey(store, vid, week) ==
  {i \in DOMAIN store : store[i].vehicleId = vid /\ store[i].weekStartDate = week}

\* String.prototype.toUpperCase on the registration numbers used here
ToUpperCase(s) ==
  CASE s = "ab1" -> "AB1"
    [] s = "cd2" -> "CD2"
    [] s = "active" -> "ACTIVE"
    [] s = "inactive" -> "INACTIVE"
    [] s = "maintenance" -> "MAINTENANCE"
    [] OTHER -> s

Init ==
  /\ vehicles = <<>>
  /\ weeklyData = <<>>
  /\ pc = [p \in Procs |-> "idle"]
  /\ req = [p \in Procs |-> BaseBody]
  /\ existingData = [p \in Procs |-> 0]
  /\ resp = [p \in Procs |-> NoResp]
  /\ replaced = [p \in Procs |-> None]
  /\ users = Users
  /\ read = NoRead
  /\ InitRoutes

----------------------------------------------------------------------------
(* Vehicle directory: POST /api/vehicles and DELETE /api/vehicles/:id *)

VehicleStatuses == {"ACTIVE", "INACTIVE", "MAINTENANCE"}

\* The ids Prisma generates are fresh.  An id that no row and no request in
\* flight holds cannot be told from a fresh one, so the model hands out the
\* least such id; MaxVehicles and MaxEntries bound the ids in use at a time.
FreeVehicleIds ==
  {v \in 1..MaxVehicles :
     /\ v \notin DOMAIN vehicles
     /\ \A p \in Procs : pc[p] # "idle" => req[p].vehicleId # v}

FreeEntryIds ==
  {i \in 1..MaxEntries :
     /\ i \notin DOMAIN weeklyData
     /\ \A p \in Procs : existingData[p] # i}

Least(S) == CHOOSE i \in S : \A j \in S : i <= j

CascadeDeleteNothing(store, vid) == store

\* ON DELETE CASCADE of WeeklyData_vehicleId_fkey
CascadeDelete(store, vid) ==
  [i \in {j \in DOMAIN store : store[j].vehicleId # vid} |-> store[i]]

\* DELETE /api/vehicles/:id
DeleteVehicle(id) ==
  /\ \/ /\ id \in DOMAIN vehicles
        /\ vehicles' = [v \in DOMAIN vehicles \ {id} |-> vehicles[v]]
        /\ weeklyData' = CascadeDelete(weeklyData, id)      \* 200
     \/ /\ id \notin DOMAIN vehicles
        /\ UNCHANGED <<vehicles, weeklyData>>               \* P2025: 404
  /\ UNCHANGED <<pc, req, existingData, resp, replaced>>
  /\ UNCHANGED <<users, read>>
  /\ UNCHANGED routeVars

----------------------------------------------------------------------------
(* /api/vehicles as requests: authorize, the handler's queries, the answer *)

\* the roles of the accounts
Roles == {"ADMIN", "MANAGER", "VIEWER"}

\* String.prototype.toUpperCase on the role names the routes pass to authorize
RoleToUpperCase(r) ==
  CASE r = "admin" -> "ADMIN"
    [] r = "manager" -> "MANAGER"
    [] r = "viewer" -> "VIEWER"
    [] OTHER -> r

\* authorize(...roles) for an authenticated user: next() when the user's role
\* is one of the roles, compared in upper case, else 403
Authorized(roles, role) == role \in {RoleToUpperCase(r) : r \in roles}

\* res.status(403).json({ message: 'Insufficient permissions' })
Forbidden == [status |-> 403, message |-> "Insufficient permissions"]

\* authorize('admin', 'manager') of POST / and PUT /:id
WriteRoles == {"admin", "manager"}

DeleteRolesWithManager == {"admin", "manager"}

\* authorize('admin') of DELETE /:id
DeleteRoles == {"admin"}

\* no answer yet
NoAnswer == [status |-> 0, message |-> "none"]

VehicleNumberTakenExact(vs, vehicleNumber) ==
  \E v \in DOMAIN vs : vs[v].vehicleNumber = vehicleNumber

\* prisma.vehicle.findUnique({ where: { vehicleNumber: vehicleNumber.toUpperCase() } })
\* returned a row
VehicleNumberTaken(vs, vehicleNumber) ==
  \E v \in DOMAIN vs : vs[v].vehicleNumber = ToUpperCase(vehicleNumber)

\* prisma.vehicle.findFirst({ where: { vehicleNumber: vehicleNumber.toUpperCase(),
\* NOT: { id } } }) returned a row
VehicleNumberTakenByOther(vs, vehicleNumber, id) ==
  \E v \in DOMAIN vs \ {id} : vs[v].vehicleNumber = ToUpperCase(vehicleNumber)

\* the unique index Vehicle_vehicleNumber_key rejects the number for row id
NumberIndexViolated(vs, vehicleNumber, id) ==
  \E v \in DOMAIN vs \ {id} : vs[v].vehicleNumber = vehicleNumber

\* the vehicle ids the read-side request in progress holds: the id a vehicle
\* report or a trend was asked for, the ids of the vehicles a fleet report
\* has listed
HeldByRead ==
  IF read = NoRead THEN {}
  ELSE IF read.op = "vehicleReport" THEN {read.vehicleId}
  ELSE IF read.op = "report" THEN {read.fleet[k].id : k \in DOMAIN read.fleet}
  ELSE IF read.op = "trends" /\ read.vehicleId # None THEN {read.vehicleId[1]}
  ELSE {}

\* The id of a new row is made when vehicle.create inserts it and is never
\* made again: an id no vehicle and no request in progress holds
FreshVehicleIds ==
  {v \in FreeVehicleIds \ HeldByRead :
     \A p \in Procs : vreq[p].op # "none" => vreq[p].id # v}

\* res.status(400).json({ errors: errors.array() }), which has no message
ValidationFailed == [status |-> 400, message |-> "errors"]

\* the validators of POST /api/vehicles: vehicleNumber notEmpty, status
\* optional and one of the three; driverName and phoneNumber are not modelled
ValidVehicleBody(vehicleNumber, status) ==
  /\ vehicleNumber # None
  /\ status # None => status[1] \in {"active", "inactive", "maintenance"}

\* POST /api/vehicles by a user with the given role arrives: authorize, then
\* the validators.  vehicleNumber and status are None or Some(value).
VehiclePostStart(p, role, vehicleNumber, status) ==
  /\ vreq[p] = NoVehicleReq
  /\ vreq' = [vreq EXCEPT ![p] =
                [op |-> "post", role |-> role, id |-> 0, vehicleNumber |-> vehicleNumber,
                 status |-> status, found |-> None,
                 pc |-> IF Authorized(WriteRoles, role) /\ ValidVehicleBody(vehicleNumber, status)
                        THEN "find" ELSE "done",
                 answer |-> IF ~Authorized(WriteRoles, role) THEN Forbidden
                            ELSE IF ~ValidVehicleBody(vehicleNumber, status) THEN ValidationFailed
                            ELSE NoAnswer]]
  /\ UNCHANGED <<vehicles, ledgerVars, accounts, authReq, clock, issued>>

\* await prisma.vehicle.findUnique by the upper-cased number
VehiclePostFind(p) ==
  /\ vreq[p].op = "post" /\ vreq[p].pc = "find"
  /\ vreq' = [vreq EXCEPT ![p] =
                IF VehicleNumberTaken(vehicles, vreq[p].vehicleNumber[1])
                THEN [@ EXCEPT !.pc = "done",
                               !.answer = [status |-> 400,
                                           message |-> "Vehicle with this number already exists"]]
                ELSE [@ EXCEPT !.pc = "create"]]
  /\ UNCHANGED <<vehicles, ledgerVars, accounts, authReq, clock, issued>>

\* await prisma.vehicle.create; the catch block answers 500 when the unique
\* index rejects the row
VehiclePostCreate(p) ==
  /\ vreq[p].op = "post" /\ vreq[p].pc = "create"
  /\ IF NumberIndexViolated(vehicles, ToUpperCase(vreq[p].vehicleNumber[1]), 0)
     THEN /\ vreq' = [vreq EXCEPT ![p].pc = "done",
                                  ![p].answer = [status |-> 500,
                                                 message |-> "Failed to create vehicle"]]
          /\ UNCHANGED vehicles
     ELSE /\ FreshVehicleIds # {}
          /\ vehicles' = vehicles @@
               (Least(FreshVehicleIds) :>
                  [vehicleNumber |-> ToUpperCase(vreq[p].vehicleNumber[1]),
                   status |-> IF vreq[p].status = None THEN "ACTIVE"
                              ELSE ToUpperCase(vreq[p].status[1])])
          /\ vreq' = [vreq EXCEPT ![p].pc = "done", ![p].id = Least(FreshVehicleIds),
                                  ![p].answer = [status |-> 201,
                                                 message |-> "Vehicle created successfully"]]
  /\ UNCHANGED <<ledgerVars, accounts, authReq, clock, issued>>

\* PUT /api/vehicles/:id by a user with the given role arrives; vehicleNumber
\* and status are None or Some(value)
VehiclePutStart(p, role, id, vehicleNumber, status) ==
  /\ vreq[p] = NoVehicleReq
  /\ vreq' = [vreq EXCEPT ![p] =
                [op |-> "put", role |-> role, id |-> id, vehicleNumber |-> vehicleNumber,
                 status |-> status, found |-> None,
                 pc |-> IF Authorized(WriteRoles, role) THEN "find" ELSE "done",
                 answer |-> IF Authorized(WriteRoles, role) THEN NoAnswer ELSE Forbidden]]
  /\ UNCHANGED <<vehicles, ledgerVars, accounts, authReq, clock, issued>>

\* await prisma.vehicle.findUnique by id; then the test
\* vehicleNumber && vehicleNumber !== vehicle.vehicleNumber
VehiclePutFind(p) ==
  /\ vreq[p].op = "put" /\ vreq[p].pc = "find"
  /\ vreq' = [vreq EXCEPT ![p] =
                IF vreq[p].id \notin DOMAIN vehicles
                THEN [@ EXCEPT !.pc = "done",
                               !.answer = [status |-> 404, message |-> "Vehicle not found"]]
                ELSE [@ EXCEPT !.found = Some(vehicles[vreq[p].id].vehicleNumber),
                               !.pc = IF /\ vreq[p].vehicleNumber # None
                                         /\ vreq[p].vehicleNumber[1]
                                              # vehicles[vreq[p].id].vehicleNumber
                                      THEN "conflict" ELSE "update"]]
  /\ UNCHANGED <<vehicles, ledgerVars, accounts, authReq, clock, issued>>

\* await prisma.vehicle.findFirst for another vehicle with the number
VehiclePutConflict(p) ==
  /\ vreq[p].op = "put" /\ vreq[p].pc = "conflict"
  /\ vreq' = [vreq EXCEPT ![p] =
                IF VehicleNumberTakenByOther(vehicles, vreq[p].vehicleNumber[1], vreq[p].id)
                THEN [@ EXCEPT !.pc = "done",
                               !.answer = [status |-> 400,
                                           message |-> "Vehicle with this number already exists"]]
                ELSE [@ EXCEPT !.pc = "update"]]
  /\ UNCHANGED <<vehicles, ledgerVars, accounts, authReq, clock, issued>>

\* await prisma.vehicle.update; the catch block answers 500 when the row is
\* gone (P2025) or the unique index rejects the number (P2002)
VehiclePutUpdate(p) ==
  /\ vreq[p].op = "put" /\ vreq[p].pc = "update"
  /\ IF \/ vreq[p].id \notin DOMAIN vehicles
        \/ /\ vreq[p].vehicleNumber # None
           /\ NumberIndexViolated(vehicles, ToUpperCase(vreq[p].vehicleNumber[1]), vreq[p].id)
     THEN /\ vreq' = [vreq EXCEPT ![p].pc = "done",
                                  ![p].answer = [status |-> 500,
                                                 message |-> "Failed to update vehicle"]]
          /\ UNCHANGED vehicles
     ELSE /\ vehicles' =
               [vehicles EXCEPT
                  ![vreq[p].id] =
                     [vehicleNumber |-> IF vreq[p].vehicleNumber = None THEN @.vehicleNumber
                                        ELSE ToUpperCase(vreq[p].vehicleNumber[1]),
                      status |-> IF vreq[p].status = None THEN @.status
                                 ELSE ToUpperCase(vreq[p].status[1])]]
          /\ vreq' = [vreq EXCEPT ![p].pc = "done",
                                  ![p].answer = [status |-> 200,
                                                 message |-> "Vehicle updated successfully"]]
  /\ UNCHANGED <<ledgerVars, accounts, authReq, clock, issued>>

\* DELETE /api/vehicles/:id by a user with the given role: authorize, then
\* prisma.vehicle.delete, with P2025 answered 404
VehicleDelete(p, role, id) ==
  /\ vreq[p] = NoVehicleReq
  /\ IF ~Authorized(DeleteRoles, role)
     THEN /\ vreq' = [vreq EXCEPT ![p] =
                        [op |-> "delete", role |-> role, id |-> id, vehicleNumber |-> None,
                         status |-> None, found |-> None, pc |-> "done", answer |-> Forbidden]]
          /\ UNCHANGED <<vehicles, weeklyData>>
     ELSE IF id \notin DOMAIN vehicles
     THEN /\ vreq' = [vreq EXCEPT ![p] =
                        [op |-> "delete", role |-> role, id |-> id, vehicleNumber |-> None,
                         status |-> None, found |-> None, pc |-> "done",
                         answer |-> [status |-> 404, message |-> "Vehicle not found"]]]
          /\ UNCHANGED <<vehicles, weeklyData>>
     ELSE /\ vreq' = [vreq EXCEPT ![p] =
                        [op |-> "delete", role |-> role, id |-> id, vehicleNumber |-> None,
                         status |-> None, found |-> None, pc |-> "done",
                         answer |-> [status |-> 200, message |-> "Vehicle deleted successfully"]]]
          /\ vehicles' = [v \in DOMAIN vehicles \ {id} |-> vehicles[v]]
          /\ weeklyData' = CascadeDelete(weeklyData, id)
  /\ UNCHANGED <<pc, req, existingData, resp, replaced, users, read>>
  /\ UNCHANGED <<accounts, authReq, clock, issued>>

\* the response has been delivered; the slot takes the next request
VehicleFinish(p) ==
  /\ vreq[p].op # "none" /\ vreq[p].pc = "done"
  /\ vreq' = [vreq EXCEPT ![p] = NoVehicleReq]
  /\ UNCHANGED <<vehicles, ledgerVars, accounts, authReq, clock, issued>>

----------------------------------------------------------------------------
(* POST /api/auth/forgot-password, POST /api/auth/reset-password and
   PUT /api/auth/change-password *)

\* the email address of each account
EmailOf(u) ==
  CASE u = "u1" -> "u1@example.com"
    [] u = "u2" -> "u2@example.com"

\* crypto.createHash('sha256').update(token).digest('hex')
Sha256(token) == <<"sha256", token>>

\* the 3600000 ms a token is valid, in hours
TokenLifetime == 1

\* isLength({ min: 6 }) of a password
PasswordMin == 6

\* prisma.user.findUnique({ where: { email } }): the ids of the rows found
FindUserByEmail(email) == {u \in users : EmailOf(u) = email}

\* prisma.user.findFirst({ where: { resetToken: hashedToken,
\* resetTokenExpiry: { gt: new Date() } } }): the ids of the rows found
FindUserByToken(hashedToken, now) ==
  {u \in users : /\ accounts[u].resetToken = Some(hashedToken)
                 /\ accounts[u].resetTokenExpiry[1] > now}

\* res.json({ message: 'If an account exists with that email, ...' })
ForgotGeneric ==
  [status |-> 200,
   message |-> "If an account exists with that email, you will receive password reset instructions."]

\* forgot-password with an email address that passes isEmail arrives
ForgotStart(p, email) ==
  /\ authReq[p] = NoAuthReq
  /\ authReq' = [authReq EXCEPT ![p] =
                   [op |-> "forgot", pc |-> "find", email |-> email, user |-> None,
                    token |-> 0, newPassword |-> "", resetTokenExpiry |-> 0, now |-> 0,
                    answer |-> NoAnswer]]
  /\ UNCHANGED <<vehicles, ledgerVars, vreq, accounts, clock, issued>>

\* await prisma.user.findUnique; without a user the generic answer, else
\* crypto.randomBytes(32): a token that was never generated before, and
\* resetTokenExpiry = new Date(Date.now() + 3600000), read before the update
\* is sent
ForgotFindUser(p) ==
  /\ authReq[p].op = "forgot" /\ authReq[p].pc = "find"
  /\ IF FindUserByEmail(authReq[p].email) = {}
     THEN /\ authReq' = [authReq EXCEPT ![p].pc = "done", ![p].answer = ForgotGeneric]
          /\ UNCHANGED issued
     ELSE /\ issued < MaxTokens
          /\ issued' = issued + 1
          /\ authReq' = [authReq EXCEPT
                           ![p].pc = "store",
                           ![p].user = Some(CHOOSE u \in FindUserByEmail(authReq[p].email) : TRUE),
                           ![p].token = issued + 1,
                           ![p].resetTokenExpiry = clock + TokenLifetime]
  /\ UNCHANGED <<vehicles, ledgerVars, vreq, accounts, clock>>

\* await prisma.user.update({ data: { resetToken: hashedToken, resetTokenExpiry } })
ForgotStoreToken(p) ==
  /\ authReq[p].op = "forgot" /\ authReq[p].pc = "store"
  /\ IF authReq[p].user[1] \notin users
     THEN /\ authReq' = [authReq EXCEPT
                           ![p].pc = "done",
                           ![p].answer = [status |-> 500,
                                          message |-> "Password reset request failed"]]
          /\ UNCHANGED accounts
     ELSE /\ accounts' = [accounts EXCEPT
                            ![authReq[p].user[1]].resetToken = Some(Sha256(authReq[p].token)),
                            ![authReq[p].user[1]].resetTokenExpiry =
                               Some(authReq[p].resetTokenExpiry)]
          /\ authReq' = [authReq EXCEPT ![p].pc = "email"]
  /\ UNCHANGED <<vehicles, ledgerVars, vreq, clock, issued>>

\* await emailService.sendPasswordResetEmail resolves; the audit log; res.json
ForgotEmailSent(p) ==
  /\ authReq[p].op = "forgot" /\ authReq[p].pc = "email"
  /\ authReq' = [authReq EXCEPT ![p].pc = "done", ![p].answer = ForgotGeneric]
  /\ UNCHANGED <<vehicles, ledgerVars, vreq, accounts, clock, issued>>

\* await emailService.sendPasswordResetEmail rejects ('Failed to send email')
ForgotEmailFails(p) ==
  /\ authReq[p].op = "forgot" /\ authReq[p].pc = "email"
  /\ authReq' = [authReq EXCEPT
                   ![p].pc = "done",
                   ![p].answer =
                      [status |-> 500,
                       message |-> "Failed to send reset email. Please try again later or contact support."]]
  /\ UNCHANGED <<vehicles, ledgerVars, vreq, accounts, clock, issued>>

\* reset-password with a token arrives; the validators answer 400 to a new
\* password of fewer than PasswordMin characters.  The new Date() of the
\* query is read here, before findFirst is sent.
ResetStart(p, token, newPassword) ==
  /\ authReq[p] = NoAuthReq
  /\ authReq' = [authReq EXCEPT ![p] =
                   [op |-> "reset", email |-> "", user |-> None,
                    token |-> token, newPassword |-> newPassword,
                    resetTokenExpiry |-> 0, now |-> clock,
                    pc |-> IF Len(newPassword) < PasswordMin THEN "done" ELSE "find",
                    answer |-> IF Len(newPassword) < PasswordMin THEN ValidationFailed
                               ELSE NoAnswer]]
  /\ UNCHANGED <<vehicles, ledgerVars, vreq, accounts, clock, issued>>

\* await prisma.user.findFirst by the hashed token, with the date the request
\* has read; 400 without a user
ResetFindUser(p) ==
  /\ authReq[p].op = "reset" /\ authReq[p].pc = "find"
  /\ authReq' = [authReq EXCEPT ![p] =
                   IF FindUserByToken(Sha256(authReq[p].token), authReq[p].now) = {}
                   THEN [@ EXCEPT !.pc = "done",
                                  !.answer = [status |-> 400,
                                              message |-> "Invalid or expired reset token"]]
                   ELSE [@ EXCEPT !.pc = "update",
                                  !.user = Some(CHOOSE u \in FindUserByToken(
                                                  Sha256(authReq[p].token),
                                                  authReq[p].now) : TRUE)]]
  /\ UNCHANGED <<vehicles, ledgerVars, vreq, accounts, clock, issued>>

\* bcrypt.hash, then await prisma.user.update({ where: { id: user.id }, data:
\* { password, resetToken: null, resetTokenExpiry: null } }); the audit log; res.json
ResetUpdate(p) ==
  /\ authReq[p].op = "reset" /\ authReq[p].pc = "update"
  /\ IF authReq[p].user[1] \notin users
     THEN /\ authReq' = [authReq EXCEPT
                           ![p].pc = "done",
                           ![p].answer = [status |-> 500, message |-> "Password reset failed"]]
          /\ UNCHANGED accounts
     ELSE /\ accounts' = [accounts EXCEPT
                            ![authReq[p].user[1]] =
                               [password |-> Bcrypt(authReq[p].newPassword),
                                resetToken |-> None, resetTokenExpiry |-> None]]
          /\ authReq' = [authReq EXCEPT
                           ![p].pc = "done",
                           ![p].answer =
                              [status |-> 200,
                               message |-> "Password reset successful. You can now log in with your new password."]]
  /\ UNCHANGED <<vehicles, ledgerVars, vreq, clock, issued>>

\* PUT /api/auth/change-password by the caller authenticate has found: req.user
\* is the row of u as authenticate has read it, password hash included.  The
\* validators answer 400 to an empty current password and to a new password of
\* fewer than PasswordMin characters.
ChangePasswordStart(p, u, currentPassword, newPassword) ==
  /\ authReq[p] = NoAuthReq
  /\ u \in users
  /\ authReq' = [authReq EXCEPT ![p] =
                   [op |-> "changePassword", email |-> "", user |-> Some(u), token |-> 0,
                    currentPassword |-> currentPassword, newPassword |-> newPassword,
                    password |-> accounts[u].password,
                    pc |-> IF currentPassword = "" \/ Len(newPassword) < PasswordMin
                           THEN "done" ELSE "compare",
                    answer |-> IF currentPassword = "" \/ Len(newPassword) < PasswordMin
                               THEN ValidationFailed ELSE NoAnswer]]
  /\ UNCHANGED <<vehicles, ledgerVars, vreq, accounts, clock, issued>>

\* await bcrypt.compare(currentPassword, user.password); 401 when they differ
ChangePasswordCompare(p) ==
  /\ authReq[p].op = "changePassword" /\ authReq[p].pc = "compare"
  /\ authReq' = [authReq EXCEPT ![p] =
                   IF Bcrypt(authReq[p].currentPassword) # authReq[p].password
                   THEN [@ EXCEPT !.pc = "done",
                                  !.answer = [status |-> 401,
                                              message |-> "Current password is incorrect"]]
                   ELSE [@ EXCEPT !.pc = "salt"]]
  /\ UNCHANGED <<vehicles, ledgerVars, vreq, accounts, clock, issued>>

\* await bcrypt.genSalt(10)
ChangePasswordSalt(p) ==
  /\ authReq[p].op = "changePassword" /\ authReq[p].pc = "salt"
  /\ authReq' = [authReq EXCEPT ![p].pc = "hash"]
  /\ UNCHANGED <<vehicles, ledgerVars, vreq, accounts, clock, issued>>

\* await bcrypt.hash(newPassword, salt)
ChangePasswordHash(p) ==
  /\ authReq[p].op = "changePassword" /\ authReq[p].pc = "hash"
  /\ authReq' = [authReq EXCEPT ![p].pc = "update"]
  /\ UNCHANGED <<vehicles, ledgerVars, vreq, accounts, clock, issued>>

\* await prisma.user.update({ where: { id: user.id }, data: { password } }),
\* which leaves resetToken and resetTokenExpiry alone; res.json.  When the row
\* is gone (P2025) the catch block answers 500.
ChangePasswordUpdate(p) ==
  /\ authReq[p].op = "changePassword" /\ authReq[p].pc = "update"
  /\ IF authReq[p].user[1] \notin users
     THEN /\ authReq' = [authReq EXCEPT
                           ![p].pc = "done",
                           ![p].answer = [status |-> 500,
                                          message |-> "Failed to change password"]]
          /\ UNCHANGED accounts
     ELSE /\ accounts' = [accounts EXCEPT
                            ![authReq[p].user[1]].password = Bcrypt(authReq[p].newPassword)]
          /\ authReq' = [authReq EXCEPT
                           ![p].pc = "done",
                           ![p].answer = [status |-> 200,
                                          message |-> "Password changed successfully"]]
  /\ UNCHANGED <<vehicles, ledgerVars, vreq, clock, issued>>

\* the response has been delivered; the slot takes the next request
AuthFinish(p) ==
  /\ authReq[p].op # "none" /\ authReq[p].pc = "done"
  /\ authReq' = [authReq EXCEPT ![p] = NoAuthReq]
  /\ UNCHANGED <<vehicles, ledgerVars, vreq, accounts, clock, issued>>

\* an hour passes
Tick ==
  /\ clock < MaxClock
  /\ clock' = clock + 1
  /\ UNCHANGED <<vehicles, ledgerVars, vreq, accounts, authReq, issued>>

----------------------------------------------------------------------------
(* POST /api/weekly-data *)

\* validationResult(req).isEmpty()
ValidationPasses(b) == b.invalid = {}

VehicleFoundAlways(vs, vid) == TRUE

\* prisma.vehicle.findUnique({ where: { id: vehicleId } }) returned a row
VehicleFound(vs, vid) == vid \in DOMAIN vs

\* prisma.weeklyData.findFirst({ where: { vehicleId, weekStartDate } }): the id
\* of a matching row, 0 when there is none
FindFirst(store, vid, week) ==
  IF RowsWithKey(store, vid, week) = {} THEN 0
  ELSE CHOOSE i \in RowsWithKey(store, vid, week) :
         \A j \in RowsWithKey(store, vid, week) : i <= j

\* the data object of prisma.weeklyData.create
CreateData(b, id) ==
  [id |-> id,
   vehicleId |-> b.vehicleId,
   weekStartDate |-> b.weekStartDate,
   weekEndDate |-> b.weekEndDate,
   cashCollected |-> b.cashCollected,
   onlineEarnings |-> b.onlineEarnings,
   totalRevenue |-> CalcTotalRevenue(b),
   dieselExpense |-> b.dieselExpense,
   tollsParking |-> b.tollsParking,
   maintenanceRepairs |-> b.maintenanceRepairs,
   otherExpenses |-> b.otherExpenses,
   totalDeductions |-> CalcTotalDeductions(b),
   netProfit |-> CalcNetProfit(b),
   profitMargin |-> CalcProfitMargin(b),
   totalTrips |-> b.totalTrips,
   totalDistance |-> b.totalDistance,
   averageRating |-> b.averageRating,
   notes |-> b.notes,
   submittedBy |-> b.user]

\* the row after prisma.weeklyData.update with the handler's data object: an
\* optional field is written only when the body has it
UpdateData(row, b) ==
  [row EXCEPT
   !.weekEndDate = b.weekEndDate,
   !.cashCollected = b.cashCollected,
   !.onlineEarnings = b.onlineEarnings,
   !.totalRevenue = CalcTotalRevenue(b),
   !.dieselExpense = b.dieselExpense,
   !.tollsParking = b.tollsParking,
   !.maintenanceRepairs = b.maintenanceRepairs,
   !.otherExpenses = b.otherExpenses,
   !.totalDeductions = CalcTotalDeductions(b),
   !.netProfit = CalcNetProfit(b),
   !.profitMargin = CalcProfitMargin(b),
   !.totalTrips = IF b.totalTrips # None THEN b.totalTrips ELSE @,
   !.totalDistance = IF b.totalDistance # None THEN b.totalDistance ELSE @,
   !.averageRating = IF b.averageRating # None THEN b.averageRating ELSE @,
   !.notes = IF b.notes # None THEN b.notes ELSE @,
   !.submittedBy = b.user]

UpdateWhereVehicle(store, id) ==
  {i \in DOMAIN store : store[i].vehicleId = store[id].vehicleId}

\* the rows selected by update({ where: { id } })
UpdateWhere(store, id) == {id}

UniqueViolationNever(store, vid, week) == FALSE

\* the unique index WeeklyData_vehicleId_weekStartDate_key rejects the insert
UniqueViolation(store, vid, week) == RowsWithKey(store, vid, week) # {}

\* the handler starts: authenticate has found the caller's account and the
\* validators have run
UpsertStart(p, b) ==
  /\ pc[p] = "idle"
  /\ b.user \in users
  /\ req' = [req EXCEPT ![p] = b]
  /\ IF ValidationPasses(b)
     THEN /\ pc' = [pc EXCEPT ![p] = "findVehicle"]
          /\ resp' = [resp EXCEPT ![p] = NoResp]
     ELSE /\ pc' = [pc EXCEPT ![p] = "done"]
          /\ resp' = [resp EXCEPT ![p] = [status |-> 400, error |-> "validation", data |-> None]]
  /\ UNCHANGED <<vehicles, weeklyData, existingData, replaced>>
  /\ UNCHANGED <<users, read>>
  /\ UNCHANGED routeVars

\* await prisma.vehicle.findUnique
UpsertFindVehicle(p) ==
  /\ pc[p] = "findVehicle"
  /\ IF VehicleFound(vehicles, req[p].vehicleId)
     THEN /\ pc' = [pc EXCEPT ![p] = "findExisting"]
          /\ resp' = resp
     ELSE /\ pc' = [pc EXCEPT ![p] = "done"]
          /\ resp' = [resp EXCEPT ![p] = [status |-> 404, error |-> "Vehicle not found", data |-> None]]
  /\ UNCHANGED <<vehicles, weeklyData, req, existingData, replaced>>
  /\ UNCHANGED <<users, read>>
  /\ UNCHANGED routeVars

\* await prisma.weeklyData.findFirst
UpsertFindExisting(p) ==
  /\ pc[p] = "findExisting"
  /\ existingData' = [existingData EXCEPT
                        ![p] = FindFirst(weeklyData, req[p].vehicleId, req[p].weekStartDate)]
  /\ pc' = [pc EXCEPT ![p] = "write"]
  /\ UNCHANGED <<vehicles, weeklyData, req, resp, replaced>>
  /\ UNCHANGED <<users, read>>
  /\ UNCHANGED routeVars

\* await prisma.weeklyData.update, in the branch if (existingData)
UpsertUpdate(p) ==
  /\ pc[p] = "write"
  /\ existingData[p] # 0
  /\ pc' = [pc EXCEPT ![p] = "done"]
  /\ IF existingData[p] \notin DOMAIN weeklyData
     THEN /\ weeklyData' = weeklyData            \* record to update not found
          /\ resp' = [resp EXCEPT ![p] = [status |-> 500, error |-> "P2025", data |-> None]]
          /\ replaced' = replaced
     ELSE IF req[p].user \notin users
     THEN /\ weeklyData' = weeklyData            \* WeeklyData_submittedBy_fkey failed
          /\ resp' = [resp EXCEPT ![p] = [status |-> 500, error |-> "P2003", data |-> None]]
          /\ replaced' = replaced
     ELSE /\ weeklyData' =
               [i \in DOMAIN weeklyData |->
                  IF i \in UpdateWhere(weeklyData, existingData[p])
                  THEN UpdateData(weeklyData[i], req[p]) ELSE weeklyData[i]]
          /\ resp' = [resp EXCEPT ![p] =
               [status |-> 200, error |-> "none",
                data |-> Some(UpdateData(weeklyData[existingData[p]], req[p]))]]
          /\ replaced' = [replaced EXCEPT ![p] = Some(weeklyData[existingData[p]])]
  /\ UNCHANGED <<vehicles, req, existingData>>
  /\ UNCHANGED <<users, read>>
  /\ UNCHANGED routeVars

\* await prisma.weeklyData.create, when findFirst returned null.  The unique
\* index is checked when the row is inserted, the foreign keys when the
\* statement ends.
UpsertCreate(p) ==
  /\ pc[p] = "write"
  /\ existingData[p] = 0
  /\ pc' = [pc EXCEPT ![p] = "done"]
  /\ IF UniqueViolation(weeklyData, req[p].vehicleId, req[p].weekStartDate)
     THEN /\ UNCHANGED weeklyData                    \* unique constraint failed
          /\ resp' = [resp EXCEPT ![p] = [status |-> 500, error |-> "P2002", data |-> None]]
     ELSE IF req[p].vehicleId \notin DOMAIN vehicles \/ req[p].user \notin users
     THEN /\ UNCHANGED weeklyData                    \* foreign key constraint failed
          /\ resp' = [resp EXCEPT ![p] = [status |-> 500, error |-> "P2003", data |-> None]]
     ELSE /\ FreeEntryIds # {}
          /\ weeklyData' = weeklyData @@
               (Least(FreeEntryIds) :> CreateData(req[p], Least(FreeEntryIds)))
          /\ resp' = [resp EXCEPT ![p] =
               [status |-> 201, error |-> "none",
                data |-> Some(CreateData(req[p], Least(FreeEntryIds)))]]
  /\ UNCHANGED <<vehicles, req, existingData, replaced>>
  /\ UNCHANGED <<users, read>>
  /\ UNCHANGED routeVars

\* the response has been delivered; the slot takes the next request
UpsertFinish(p) ==
  /\ pc[p] = "done"
  /\ pc' = [pc EXCEPT ![p] = "idle"]
  /\ req' = [req EXCEPT ![p] = BaseBody]
  /\ existingData' = [existingData EXCEPT ![p] = 0]
  /\ resp' = [resp EXCEPT ![p] = NoResp]
  /\ replaced' = [replaced EXCEPT ![p] = None]
  /\ UNCHANGED <<vehicles, weeklyData>>
  /\ UNCHANGED <<users, read>>
  /\ UNCHANGED routeVars

----------------------------------------------------------------------------
(* DELETE /api/weekly-data/:id *)

DeleteWeeklyEntry(id) ==
  /\ \/ /\ id \in DOMAIN weeklyData
        /\ weeklyData' = [i \in DOMAIN weeklyData \ {id} |-> weeklyData[i]]   \* 200
     \/ /\ id \notin DOMAIN weeklyData
        /\ UNCHANGED weeklyData                                              \* P2025: 404
  /\ UNCHANGED <<vehicles, pc, req, existingData, resp, replaced>>
  /\ UNCHANGED <<users, read>>
  /\ UNCHANGED routeVars

----------------------------------------------------------------------------
(* DELETE /api/data-subject/delete-account, POST /api/auth/register and the
   retention job *)

\* the NULL of the nullable column WeeklyData.submittedBy
Null == "NULL"

\* prisma.weeklyData.deleteMany({ where: { submittedBy: userId } })
DeleteManySubmittedBy(store, userId) ==
  [i \in {j \in DOMAIN store : store[j].submittedBy # userId} |-> store[i]]

\* ON DELETE SET NULL of WeeklyData_submittedBy_fkey
SetNullSubmittedBy(store, userId) ==
  [i \in DOMAIN store |->
     IF store[i].submittedBy = userId THEN [store[i] EXCEPT !.submittedBy = Null]
     ELSE store[i]]

\* delete-account by the authenticated caller userId arrives; without the
\* confirmation phrase it is answered 400
DeleteAccountStart(p, userId, confirmation) ==
  /\ authReq[p] = NoAuthReq
  /\ userId \in users
  /\ authReq' = [authReq EXCEPT ![p] =
                   [op |-> "deleteAccount", email |-> "", user |-> Some(userId), token |-> 0,
                    newPassword |-> "",
                    pc |-> IF confirmation # "DELETE MY ACCOUNT" THEN "done" ELSE "log",
                    answer |-> IF confirmation # "DELETE MY ACCOUNT"
                               THEN [status |-> 400,
                                     message |-> "Please confirm deletion by sending: confirmation: \"DELETE MY ACCOUNT\""]
                               ELSE NoAnswer]]
  /\ UNCHANGED <<vehicles, ledgerVars, vreq, accounts, clock, issued>>

\* await logDataSubjectRequest: the audit log, which is not modelled
DeleteAccountLog(p) ==
  /\ authReq[p].op = "deleteAccount" /\ authReq[p].pc = "log"
  /\ authReq' = [authReq EXCEPT ![p].pc = "entries"]
  /\ UNCHANGED <<vehicles, ledgerVars, vreq, accounts, clock, issued>>

\* await prisma.weeklyData.deleteMany({ where: { submittedBy: userId } })
DeleteAccountEntries(p) ==
  /\ authReq[p].op = "deleteAccount" /\ authReq[p].pc = "entries"
  /\ weeklyData' = DeleteManySubmittedBy(weeklyData, authReq[p].user[1])
  /\ authReq' = [authReq EXCEPT ![p].pc = "consents"]
  /\ UNCHANGED <<vehicles, pc, req, existingData, resp, replaced, users, read>>
  /\ UNCHANGED <<vreq, accounts, clock, issued>>

\* await prisma.userConsent.deleteMany: table UserConsent is not modelled
DeleteAccountConsents(p) ==
  /\ authReq[p].op = "deleteAccount" /\ authReq[p].pc = "consents"
  /\ authReq' = [authReq EXCEPT ![p].pc = "requests"]
  /\ UNCHANGED <<vehicles, ledgerVars, vreq, accounts, clock, issued>>

\* await prisma.dataSubjectRequest.deleteMany: the table is not modelled
DeleteAccountRequests(p) ==
  /\ authReq[p].op = "deleteAccount" /\ authReq[p].pc = "requests"
  /\ authReq' = [authReq EXCEPT ![p].pc = "user"]
  /\ UNCHANGED <<vehicles, ledgerVars, vreq, accounts, clock, issued>>

\* The model names the row of an account by its email address (EmailOf); the
\* username goes with the address.  The id of a row is made when user.create
\* inserts it and is never made again, so the row that registers the address
\* of a deleted account has another id.  Deleted stands for the id of every row
\* that has been deleted: when a row goes, the requests in progress that hold
\* its id hold Deleted from then on, and the name is free for the next row.
Deleted == "deleted"

\* the requests to /api/weekly-data, with Deleted for the id userId
HeldByRequests(userId) ==
  [q \in Procs |->
     IF pc[q] # "idle" /\ req[q].user = userId THEN [req[q] EXCEPT !.user = Deleted]
     ELSE req[q]]

\* the account requests, with Deleted for the id userId
HeldByAccountRequests(userId) ==
  [q \in Procs |->
     IF authReq[q].op # "none" /\ authReq[q].user = Some(userId)
     THEN [authReq[q] EXCEPT !.user = Some(Deleted)]
     ELSE authReq[q]]

\* await prisma.user.delete({ where: { id: userId } }); the entries the user
\* has submitted since deleteMany stay, with submittedBy NULL.  When the row
\* is gone already (P2025) the catch block answers 500.
DeleteAccountUser(p) ==
  /\ authReq[p].op = "deleteAccount" /\ authReq[p].pc = "user"
  /\ IF authReq[p].user[1] \notin users
     THEN /\ authReq' = [authReq EXCEPT
                           ![p].pc = "done",
                           ![p].answer = [status |-> 500, message |-> "Error deleting account"]]
          /\ UNCHANGED <<weeklyData, users, accounts, req>>
     ELSE /\ users' = users \ {authReq[p].user[1]}
          /\ accounts' = [accounts EXCEPT ![authReq[p].user[1]] = NewAccount]
          /\ weeklyData' = SetNullSubmittedBy(weeklyData, authReq[p].user[1])
          /\ req' = HeldByRequests(authReq[p].user[1])
          /\ authReq' = [HeldByAccountRequests(authReq[p].user[1]) EXCEPT
                           ![p].pc = "done",
                           ![p].answer = [status |-> 200,
                                          message |-> "Account deleted successfully"]]
  /\ UNCHANGED <<vehicles, pc, existingData, resp, replaced, read>>
  /\ UNCHANGED <<vreq, clock, issued>>

\* prisma.user.findFirst({ where: { OR: [{ email }, { username }] } }): the
\* rows found
FindUserByEmailOrName(email) == {u \in users : EmailOf(u) = email}

\* the name of the row tx.user.create makes for the address
NewUser(email) == CHOOSE u \in Users : EmailOf(u) = email

\* register with the email address of u arrives; the validators answer 400 to
\* a password of fewer than PasswordMin characters.  The request holds no id.
RegisterStart(p, u, password) ==
  /\ authReq[p] = NoAuthReq
  /\ authReq' = [authReq EXCEPT ![p] =
                   [op |-> "register", email |-> EmailOf(u), user |-> None, token |-> 0,
                    newPassword |-> password,
                    pc |-> IF Len(password) < PasswordMin THEN "done" ELSE "find",
                    answer |-> IF Len(password) < PasswordMin THEN ValidationFailed
                               ELSE NoAnswer]]
  /\ UNCHANGED <<vehicles, ledgerVars, vreq, accounts, clock, issued>>

\* await prisma.user.findFirst by email or username; 400 when a row is found
RegisterFindUser(p) ==
  /\ authReq[p].op = "register" /\ authReq[p].pc = "find"
  /\ authReq' = [authReq EXCEPT ![p] =
                   IF FindUserByEmailOrName(authReq[p].email) # {}
                   THEN [@ EXCEPT !.pc = "done",
                                  !.answer = [status |-> 400,
                                              message |-> "User already exists with this email or username"]]
                   ELSE [@ EXCEPT !.pc = "salt"]]
  /\ UNCHANGED <<vehicles, ledgerVars, vreq, accounts, clock, issued>>

\* await bcrypt.genSalt(10)
RegisterSalt(p) ==
  /\ authReq[p].op = "register" /\ authReq[p].pc = "salt"
  /\ authReq' = [authReq EXCEPT ![p].pc = "hash"]
  /\ UNCHANGED <<vehicles, ledgerVars, vreq, accounts, clock, issued>>

\* await bcrypt.hash(password, salt)
RegisterHash(p) ==
  /\ authReq[p].op = "register" /\ authReq[p].pc = "hash"
  /\ authReq' = [authReq EXCEPT ![p].pc = "create"]
  /\ UNCHANGED <<vehicles, ledgerVars, vreq, accounts, clock, issued>>

\* await prisma.$transaction: tx.user.create and the consent records, which
\* are not modelled.  When User_email_key rejects the row (P2002) the catch
\* block answers 500.
RegisterCreate(p) ==
  /\ authReq[p].op = "register" /\ authReq[p].pc = "create"
  /\ IF NewUser(authReq[p].email) \in users
     THEN /\ authReq' = [authReq EXCEPT
                           ![p].pc = "done",
                           ![p].answer = [status |-> 500, message |-> "Registration failed"]]
          /\ UNCHANGED <<users, accounts>>
     ELSE /\ users' = users \cup {NewUser(authReq[p].email)}
          /\ accounts' = [accounts EXCEPT
                            ![NewUser(authReq[p].email)] =
                               [password |-> Bcrypt(authReq[p].newPassword),
                                resetToken |-> None, resetTokenExpiry |-> None]]
          /\ authReq' = [authReq EXCEPT ![p].pc = "log"]
  /\ UNCHANGED <<vehicles, weeklyData, pc, req, existingData, resp, replaced, read>>
  /\ UNCHANGED <<vreq, clock, issued>>

\* await createAuditLog, whose failure is caught; jwt.sign; res.status(201)
RegisterLogged(p) ==
  /\ authReq[p].op = "register" /\ authReq[p].pc = "log"
  /\ authReq' = [authReq EXCEPT
                   ![p].pc = "done",
                   ![p].answer = [status |-> 201, message |-> "User registered successfully"]]
  /\ UNCHANGED <<vehicles, ledgerVars, vreq, accounts, clock, issued>>

\* RETENTION_PERIODS.WEEKLY_DATA, in days
WEEKLY_DATA == 1825

HoursPerDay == 24

\* prisma.weeklyData.deleteMany({ where: { weekStartDate: { lt: cutoffDate } } }),
\* with cutoffDate in hours; weekStartDate is the first instant of its day
DeleteManyBefore(store, cutoffDate) ==
  [i \in {j \in DOMAIN store : ~(store[j].weekStartDate * HoursPerDay < cutoffDate)} |->
     store[i]]

\* cleanupOldWeeklyData run on day now at the given hour: new Date() and
\* setDate(getDate() - WEEKLY_DATA) keep the time of day.  When deleteMany
\* rejects, the catch block returns { deleted: 0, errors: 1 }.
CleanupOldWeeklyData(now, hour) ==
  /\ \/ weeklyData' = DeleteManyBefore(weeklyData, (now - WEEKLY_DATA) * HoursPerDay + hour)
     \/ UNCHANGED weeklyData
  /\ UNCHANGED <<vehicles, pc, req, existingData, resp, replaced, users, read>>
  /\ UNCHANGED routeVars

----------------------------------------------------------------------------
(* Calendar: dates are days, day 1 is a Monday *)

DaysPerWeek == 7

\* startOfWeek(d, { weekStartsOn: 1 })
StartOfWeek(d) == d - ((d - 1) % DaysPerWeek)

\* endOfWeek(d, { weekStartsOn: 1 }): the last instant of the Sunday
EndOfWeek(d) == StartOfWeek(d) + DaysPerWeek - 1

----------------------------------------------------------------------------
(* Reading the tables *)

\* the elements of a finite set of numbers as an ascending sequence
RECURSIVE SetToSeq(_)
SetToSeq(S) == IF S = {} THEN <<>> ELSE <<Least(S)>> \o SetToSeq(S \ {Least(S)})

\* The orders in which a findMany without orderBy can return the rows ids:
\* the database promises none.
ScanOrders(ids) ==
  {[k \in 1..Cardinality(ids) |-> perm[SetToSeq(ids)[k]]] : perm \in Permutations(ids)}

InWindowByStartOnly(row, startDate, endDate) == row.weekStartDate >= startDate

\* where: { weekStartDate: { gte: startDate }, weekEndDate: { lte: endDate } }
InWindow(row, startDate, endDate) ==
  row.weekStartDate >= startDate /\ row.weekEndDate <= endDate

\* the ids selected by that where clause
FindManyInWindow(store, startDate, endDate) ==
  {i \in DOMAIN store : InWindow(store[i], startDate, endDate)}

CountNotInactive(vs) == Cardinality({v \in DOMAIN vs : vs[v].status # "INACTIVE"})

\* prisma.vehicle.count({ where: { status: 'ACTIVE' } })
CountActive(vs) == Cardinality({v \in DOMAIN vs : vs[v].status = "ACTIVE"})

\* prisma.vehicle.count()
CountAll(vs) == Cardinality(DOMAIN vs)

----------------------------------------------------------------------------
(* GET /api/dashboard/stats *)

\* let total = 0; rows.forEach(data => total += data[field])
RECURSIVE SumField(_, _)
SumField(rows, field) ==
  IF rows = <<>> THEN 0 ELSE rows[1][field] + SumField(Tail(rows), field)

\* the mean of the rows' own margins: the sum of two fractions and a fraction
\* divided by n > 0
FracAdd(a, b) == Frac(a[1] * b[2] + b[1] * a[2], a[2] * b[2])
FracDiv(a, n) == Frac(a[1], a[2] * n)

RECURSIVE SumMargins(_)
SumMargins(rows) ==
  IF rows = <<>> THEN Zero ELSE FracAdd(rows[1].profitMargin, SumMargins(Tail(rows)))

AverageOfMargins(rows) ==
  IF rows = <<>> THEN Zero ELSE FracDiv(SumMargins(rows), Len(rows))

\* weeklyRevenue > 0 ? (weeklyProfit / weeklyRevenue) * 100 : 0
AverageProfitMargin(rows) ==
  IF SumField(rows, "totalRevenue") > 0
  THEN Frac(SumField(rows, "netProfit") * 100, SumField(rows, "totalRevenue"))
  ELSE Zero

\* x put into a sequence sorted by (a, b) => b.netProfit - a.netProfit, after
\* the elements that do not compare greater (Array.prototype.sort is stable)
RECURSIVE InsertByProfit(_, _)
InsertByProfit(sorted, x) ==
  IF sorted = <<>> THEN <<x>>
  ELSE IF sorted[1].netProfit >= x.netProfit
       THEN <<sorted[1]>> \o InsertByProfit(Tail(sorted), x)
       ELSE <<x>> \o sorted

\* rows.sort((a, b) => b.netProfit - a.netProfit)
RECURSIVE SortByProfit(_)
SortByProfit(rows) ==
  IF rows = <<>> THEN <<>>
  ELSE InsertByProfit(SortByProfit(SubSeq(rows, 1, Len(rows) - 1)), rows[Len(rows)])

\* the 5 of slice(0, 5)
LeaderboardSize == 5

\* rows.slice(0, n)
Slice(rows, n) == SubSeq(rows, 1, IF Len(rows) < n THEN Len(rows) ELSE n)

TopPerformersUncut(rows, vs) ==
  LET top == SortByProfit(rows)
  IN  [k \in DOMAIN top |->
         [vehicleNumber |-> vs[top[k].vehicleId].vehicleNumber, profit |-> top[k].netProfit]]

\* sort, slice(0, 5) and map over the rows and their included vehicles
TopPerformers(rows, vs) ==
  LET top == Slice(SortByProfit(rows), LeaderboardSize)
  IN  [k \in DOMAIN top |->
         [vehicleNumber |-> vs[top[k].vehicleId].vehicleNumber, profit |-> top[k].netProfit]]

\* the handler has read the query and issued the two counts of Promise.all;
\* weekStart is None or Some(day), now is the day of the request
StatsStart(weekStart, now) ==
  /\ read = NoRead
  /\ read' = [op |-> "stats", pc |-> "count",
              startDate |-> IF weekStart # None THEN weekStart[1] ELSE StartOfWeek(now),
              endDate |-> EndOfWeek(IF weekStart # None THEN weekStart[1] ELSE StartOfWeek(now)),
              totalVehicles |-> None, activeVehicles |-> None,
              weeklyRevenue |-> 0, weeklyProfit |-> 0, averageProfitMargin |-> Zero,
              topPerformers |-> <<>>]
  /\ UNCHANGED <<vehicles, weeklyData, pc, req, existingData, resp, replaced, users>>
  /\ UNCHANGED routeVars

\* prisma.vehicle.count() is answered
StatsCountAll ==
  /\ read.op = "stats" /\ read.pc = "count" /\ read.totalVehicles = None
  /\ read' = [read EXCEPT !.totalVehicles = Some(CountAll(vehicles))]
  /\ UNCHANGED <<vehicles, weeklyData, pc, req, existingData, resp, replaced, users>>
  /\ UNCHANGED routeVars

\* prisma.vehicle.count({ where: { status: 'ACTIVE' } }) is answered
StatsCountActive ==
  /\ read.op = "stats" /\ read.pc = "count" /\ read.activeVehicles = None
  /\ read' = [read EXCEPT !.activeVehicles = Some(CountActive(vehicles))]
  /\ UNCHANGED <<vehicles, weeklyData, pc, req, existingData, resp, replaced, users>>
  /\ UNCHANGED routeVars

\* await prisma.weeklyData.findMany, the totals, the leaderboard and res.json
StatsFindMany ==
  /\ read.op = "stats" /\ read.pc = "count"
  /\ read.totalVehicles # None /\ read.activeVehicles # None
  /\ \E rows \in {[k \in DOMAIN order |-> weeklyData[order[k]]] :
                    order \in ScanOrders(FindManyInWindow(weeklyData, read.startDate, read.endDate))} :
       read' = [read EXCEPT !.pc = "done",
                            !.weeklyRevenue = SumField(rows, "totalRevenue"),
                            !.weeklyProfit = SumField(rows, "netProfit"),
                            !.averageProfitMargin = AverageProfitMargin(rows),
                            !.topPerformers = TopPerformers(rows, vehicles)]
  /\ UNCHANGED <<vehicles, weeklyData, pc, req, existingData, resp, replaced, users>>
  /\ UNCHANGED routeVars

----------------------------------------------------------------------------
(* GET /api/dashboard/trends *)

\* The orders in which findMany with orderBy: { weekStartDate: 'desc' } can
\* return the rows ids: rows with the same week start come in any order.
RECURSIVE OrderedByWeekDesc(_, _)
OrderedByWeekDesc(store, ids) ==
  IF ids = {} THEN {<<>>}
  ELSE UNION {{<<i>> \o rest : rest \in OrderedByWeekDesc(store, ids \ {i})} :
                i \in {j \in ids : \A k \in ids :
                                     store[j].weekStartDate >= store[k].weekStartDate}}

\* the where object: the vehicle's rows when vehicleId is given, else all rows
TrendsWhere(store, vehicleId) ==
  {i \in DOMAIN store : vehicleId # None => store[i].vehicleId = vehicleId[1]}

\* take: Number(weeks), where weeks = 4 when the query has none
TrendsTake(weeks) == IF weeks = None THEN 4 ELSE weeks[1]

\* array.reverse()
Reverse(rows) == [k \in 1..Len(rows) |-> rows[Len(rows) + 1 - k]]

TrendItem(row) ==
  [week |-> row.weekStartDate, revenue |-> row.totalRevenue, profit |-> row.netProfit,
   deductions |-> row.totalDeductions, profitMargin |-> row.profitMargin]

TrendsNewestFirst(rows) == [k \in 1..Len(rows) |-> TrendItem(rows[k])]

\* data.reverse().map(item => ({ week, revenue, profit, deductions, profitMargin }))
Trends(rows) == [k \in 1..Len(rows) |-> TrendItem(Reverse(rows)[k])]

\* the whole handler: one findMany; weeks is None or Some(n) with n >= 0
GetTrends(vehicleId, weeks) ==
  /\ read = NoRead
  /\ \E order \in OrderedByWeekDesc(weeklyData, TrendsWhere(weeklyData, vehicleId)) :
       read' = [op |-> "trends", pc |-> "done", vehicleId |-> vehicleId,
                take |-> TrendsTake(weeks),
                trends |-> Trends([k \in DOMAIN Slice(order, TrendsTake(weeks)) |->
                                     weeklyData[order[k]]])]
  /\ UNCHANGED <<vehicles, weeklyData, pc, req, existingData, resp, replaced, users>>
  /\ UNCHANGED routeVars

----------------------------------------------------------------------------
(* GET /api/reports/weekly-excel: ExcelService.generateWeeklyReport *)

\* the place of a registration number in ascending string order
RegRank(vehicleNumber) ==
  CASE vehicleNumber = "AB1" -> 1
    [] vehicleNumber = "CD2" -> 2

ReportWhereAnyStatus(vs) == DOMAIN vs

\* where: { status: 'ACTIVE' }
ReportWhere(vs) == {v \in DOMAIN vs : vs[v].status = "ACTIVE"}

\* orderBy: { vehicleNumber: 'asc' } over the vehicles ids
RECURSIVE OrderedByNumber(_, _)
OrderedByNumber(vs, ids) ==
  IF ids = {} THEN <<>>
  ELSE LET first == CHOOSE v \in ids :
                      \A w \in ids : RegRank(vs[v].vehicleNumber) <= RegRank(vs[w].vehicleNumber)
       IN  <<[id |-> first, vehicleNumber |-> vs[first].vehicleNumber]>>
           \o OrderedByNumber(vs, ids \ {first})

\* weeklyDataList.forEach(data => dataMap.set(data.vehicleId, data))
RECURSIVE DataMap(_)
DataMap(list) ==
  IF list = <<>> THEN <<>>
  ELSE (list[Len(list)].vehicleId :> list[Len(list)])
       @@ DataMap(SubSeq(list, 1, Len(list) - 1))

\* dataMap.get(vehicle.id)
MapGet(map, id) == IF id \in DOMAIN map THEN Some(map[id]) ELSE None

\* the columns with the number format "R"#,##0.00, by the entry's field
MoneyColumns ==
  {"cashCollected", "onlineEarnings", "totalRevenue", "dieselExpense", "tollsParking",
   "maintenanceRepairs", "otherExpenses", "totalDeductions", "netProfit"}

\* cellValues of one vehicle: data?.field || 0, and data?.notes || ''
ReportRow(vehicle, data) ==
  [f \in MoneyColumns |-> IF data = None THEN 0 ELSE data[1][f]]
  @@ [vehicleNumber |-> vehicle.vehicleNumber,
      profitMargin |-> IF data = None THEN Zero ELSE data[1].profitMargin,
      notes |-> IF data = None \/ data[1].notes = None THEN "" ELSE data[1].notes[1]]

ReportRowsWithData(fleet, map) ==
  [k \in 1..Cardinality({j \in DOMAIN fleet : fleet[j].id \in DOMAIN map}) |->
     LET withData == SelectSeq(fleet, LAMBDA vehicle : vehicle.id \in DOMAIN map)
     IN  ReportRow(withData[k], MapGet(map, withData[k].id))]

\* vehicles.forEach((vehicle, index) => { ... currentRow++ })
ReportRows(fleet, map) ==
  [k \in DOMAIN fleet |-> ReportRow(fleet[k], MapGet(map, fleet[k].id))]

RECURSIVE ReportTotalOfMap(_, _, _)
ReportTotalOfMap(fleet, map, field) ==
  IF DOMAIN map = {} THEN 0
  ELSE LET v == CHOOSE w \in DOMAIN map : TRUE
       IN  map[v][field]
           + ReportTotalOfMap(fleet, [w \in DOMAIN map \ {v} |-> map[w]], field)

\* if (data) { totalCash += data.cashCollected; ... } over the vehicles
RECURSIVE ReportTotal(_, _, _)
ReportTotal(fleet, map, field) ==
  IF fleet = <<>> THEN 0
  ELSE (IF fleet[1].id \in DOMAIN map THEN map[fleet[1].id][field] ELSE 0)
       + ReportTotal(Tail(fleet), map, field)

\* totalRevenue > 0 ? (totalNetProfit / totalRevenue) * 100 : 0
OverallProfitMargin(totalRevenue, totalNetProfit) ==
  IF totalRevenue > 0 THEN Frac(totalNetProfit * 100, totalRevenue) ELSE Zero

\* The route has read the query and the service has set the window; weekStart
\* and weekEnd are None or Some(day), now is the day of the request.
ReportStart(weekStart, weekEnd, now) ==
  /\ read = NoRead
  /\ LET startDate == IF weekStart # None THEN weekStart[1] ELSE StartOfWeek(now)
         endDate == IF weekEnd # None THEN weekEnd[1] ELSE EndOfWeek(startDate)
     IN  read' = [op |-> "report", pc |-> "vehicles",
                  weekStart |-> StartOfWeek(startDate), weekEnd |-> endDate,
                  fleet |-> <<>>, rows |-> <<>>,
                  totals |-> [f \in MoneyColumns |-> 0], overallProfitMargin |-> Zero]
  /\ UNCHANGED <<vehicles, weeklyData, pc, req, existingData, resp, replaced, users>>
  /\ UNCHANGED routeVars

\* await prisma.vehicle.findMany
ReportFindVehicles ==
  /\ read.op = "report" /\ read.pc = "vehicles"
  /\ read' = [read EXCEPT !.pc = "data",
                          !.fleet = OrderedByNumber(vehicles, ReportWhere(vehicles))]
  /\ UNCHANGED <<vehicles, weeklyData, pc, req, existingData, resp, replaced, users>>
  /\ UNCHANGED routeVars

\* await prisma.weeklyData.findMany, then the data rows and the totals row
ReportFindData ==
  /\ read.op = "report" /\ read.pc = "data"
  /\ \E list \in {[k \in DOMAIN order |-> weeklyData[order[k]]] :
                    order \in ScanOrders(FindManyInWindow(weeklyData, read.weekStart, read.weekEnd))} :
       read' = [read EXCEPT
                  !.pc = "done",
                  !.rows = ReportRows(read.fleet, DataMap(list)),
                  !.totals = [f \in MoneyColumns |-> ReportTotal(read.fleet, DataMap(list), f)],
                  !.overallProfitMargin =
                     OverallProfitMargin(ReportTotal(read.fleet, DataMap(list), "totalRevenue"),
                                         ReportTotal(read.fleet, DataMap(list), "netProfit"))]
  /\ UNCHANGED <<vehicles, weeklyData, pc, req, existingData, resp, replaced, users>>
  /\ UNCHANGED routeVars

----------------------------------------------------------------------------
(* GET /api/weekly-data *)

TableAfterQueryEmptied(table) == <<>>

\* findUnique, findMany and count are queries: the table is as it was
TableAfterQuery(table) == table

\* the where object built from the query: each filter is None or Some(value)
EntriesWhere(store, vehicleId, weekStart, weekEnd) ==
  {i \in DOMAIN store :
     /\ vehicleId # None => store[i].vehicleId = vehicleId[1]
     /\ weekStart # None => store[i].weekStartDate >= weekStart[1]
     /\ weekEnd # None => store[i].weekEndDate <= weekEnd[1]}

\* the whole handler: one findMany ordered by weekStartDate desc, res.json(data)
GetWeeklyEntries(vehicleId, weekStart, weekEnd) ==
  /\ read = NoRead
  /\ \E order \in OrderedByWeekDesc(weeklyData,
                                    EntriesWhere(weeklyData, vehicleId, weekStart, weekEnd)) :
       read' = [op |-> "entries", pc |-> "done", status |-> 200,
                data |-> [k \in DOMAIN order |-> weeklyData[order[k]]]]
  /\ vehicles' = TableAfterQuery(vehicles)
  /\ weeklyData' = TableAfterQuery(weeklyData)
  /\ UNCHANGED <<pc, req, existingData, resp, replaced, users>>
  /\ UNCHANGED routeVars

\* the findMany throws: the catch block answers 500
GetWeeklyEntriesFails ==
  /\ read = NoRead
  /\ read' = [op |-> "entries", pc |-> "done", status |-> 500, data |-> <<>>]
  /\ vehicles' = TableAfterQuery(vehicles)
  /\ weeklyData' = TableAfterQuery(weeklyData)
  /\ UNCHANGED <<pc, req, existingData, resp, replaced, users>>
  /\ UNCHANGED routeVars

----------------------------------------------------------------------------
(* GET /api/reports/vehicle-excel/:vehicleId: ExcelService.generateVehicleReport *)

\* new Date(s) of a string that is no date: its time value is NaN.  The days
\* of valid dates are 1 and above.
InvalidDate == 0

FindUniqueVehicleOrBlank(vs, id) ==
  IF id \in DOMAIN vs THEN Some(vs[id].vehicleNumber) ELSE Some("")

\* prisma.vehicle.findUnique({ where: { id: vehicleId } }): the vehicle or null
FindUniqueVehicle(vs, id) ==
  IF id \in DOMAIN vs THEN Some(vs[id].vehicleNumber) ELSE None

\* where: { vehicleId, weekStartDate: { gte: startDate }, weekEndDate: { lte: endDate } }
VehicleReportWhere(store, vehicleId, startDate, endDate) ==
  {i \in DOMAIN store : store[i].vehicleId = vehicleId /\ InWindow(store[i], startDate, endDate)}

\* orderBy: { weekStartDate: 'asc' } over the rows ids of one vehicle, whose
\* week starts differ
RECURSIVE OrderedByWeekAsc(_, _)
OrderedByWeekAsc(store, ids) ==
  IF ids = {} THEN <<>>
  ELSE LET first == CHOOSE i \in ids :
                      \A j \in ids : store[i].weekStartDate <= store[j].weekStartDate
       IN  <<first>> \o OrderedByWeekAsc(store, ids \ {first})

\* row.values of one entry
VehicleReportRow(data) ==
  [week |-> data.weekStartDate, totalRevenue |-> data.totalRevenue,
   totalDeductions |-> data.totalDeductions, netProfit |-> data.netProfit,
   profitMargin |-> data.profitMargin,
   notes |-> IF data.notes = None THEN "" ELSE data.notes[1]]

\* res.status(400).json({ message: 'Start date and end date are required' })
VehicleReportBadRequest ==
  [status |-> 400, message |-> "Start date and end date are required", error |-> "none"]

\* the catch block of the route: res.status(500).json({ message, error: error.message })
VehicleReportFailure(error) ==
  [status |-> 500, message |-> "Failed to generate vehicle report", error |-> error]

\* res.send(buffer): status 200, no JSON body
VehicleReportSent == [status |-> 200, message |-> "none", error |-> "none"]

\* The route has read the parameters; startDate and endDate are None or
\* Some(day).  Without one of them it answers 400, else it calls the service.
\* cause records why the request is answered as it is.
VehicleReportStart(vehicleId, startDate, endDate) ==
  /\ read = NoRead
  /\ read' = IF startDate = None \/ endDate = None
             THEN [op |-> "vehicleReport", pc |-> "done", vehicleId |-> vehicleId,
                   startDate |-> startDate, endDate |-> endDate, vehicle |-> None,
                   workbook |-> None, answer |-> VehicleReportBadRequest,
                   cause |-> "invalid request"]
             ELSE [op |-> "vehicleReport", pc |-> "vehicle", vehicleId |-> vehicleId,
                   startDate |-> startDate, endDate |-> endDate, vehicle |-> None,
                   workbook |-> None, answer |-> [status |-> 0, message |-> "none", error |-> "none"],
                   cause |-> "none"]
  /\ UNCHANGED <<vehicles, weeklyData, pc, req, existingData, resp, replaced, users>>
  /\ UNCHANGED routeVars

\* await prisma.vehicle.findUnique; if (!vehicle) throw new Error('Vehicle not found')
VehicleReportFindVehicle ==
  /\ read.op = "vehicleReport" /\ read.pc = "vehicle"
  /\ read' = IF FindUniqueVehicle(vehicles, read.vehicleId) = None
             THEN [read EXCEPT !.pc = "done",
                               !.answer = VehicleReportFailure("Vehicle not found"),
                               !.cause = "not found"]
             ELSE [read EXCEPT !.pc = "data",
                               !.vehicle = FindUniqueVehicle(vehicles, read.vehicleId)]
  /\ vehicles' = TableAfterQuery(vehicles)
  /\ weeklyData' = TableAfterQuery(weeklyData)
  /\ UNCHANGED <<pc, req, existingData, resp, replaced, users>>
  /\ UNCHANGED routeVars

\* await prisma.weeklyData.findMany, which rejects an Invalid Date; then the
\* sheet, workbook.xlsx.writeBuffer() and res.send(buffer)
VehicleReportFindData ==
  /\ read.op = "vehicleReport" /\ read.pc = "data"
  /\ read' = IF read.startDate[1] = InvalidDate \/ read.endDate[1] = InvalidDate
             THEN [read EXCEPT !.pc = "done",
                               !.answer = VehicleReportFailure("Invalid Date"),
                               !.cause = "invalid request"]
             ELSE LET order == OrderedByWeekAsc(weeklyData,
                                 VehicleReportWhere(weeklyData, read.vehicleId,
                                                    read.startDate[1], read.endDate[1]))
                  IN  [read EXCEPT !.pc = "done",
                                   !.workbook = Some([k \in DOMAIN order |->
                                                        VehicleReportRow(weeklyData[order[k]])]),
                                   !.answer = VehicleReportSent,
                                   !.cause = IF order = <<>> THEN "empty" ELSE "none"]
  /\ vehicles' = TableAfterQuery(vehicles)
  /\ weeklyData' = TableAfterQuery(weeklyData)
  /\ UNCHANGED <<pc, req, existingData, resp, replaced, users>>
  /\ UNCHANGED routeVars

\* the database does not answer the query the service waits for: the query
\* throws and the catch block of the route answers
VehicleReportStorageFails ==
  /\ read.op = "vehicleReport" /\ read.pc \in {"vehicle", "data"}
  /\ read' = [read EXCEPT !.pc = "done",
                          !.answer = VehicleReportFailure("Can't reach database server"),
                          !.cause = "storage failure"]
  /\ vehicles' = TableAfterQuery(vehicles)
  /\ weeklyData' = TableAfterQuery(weeklyData)
  /\ UNCHANGED <<pc, req, existingData, resp, replaced, users>>
  /\ UNCHANGED routeVars

----------------------------------------------------------------------------
(* The end of a read-side request *)

\* the response has been delivered
ReadFinish ==
  /\ read # NoRead /\ read.pc = "done"
  /\ read' = NoRead
  /\ UNCHANGED <<vehicles, weeklyData, pc, req, existingData, resp, replaced, users>>
  /\ UNCHANGED routeVars

----------------------------------------------------------------------------
(* The requests the specifications draw from *)

\* registration numbers as typed by the caller
RegNumbers == {"ab1", "AB1", "CD2"}

\* Concurrent requests: any vehicle reference and two weeks.
RaceBodies ==
  {[BaseBody EXCEPT !.vehicleId = v, !.weekStartDate = w, !.weekEndDate = w,
                    !.cashCollected = 1] :
     v \in {1, 2}, w \in {1, 2}}

\* two cash amounts for the keys of vehicle 1, to tell two requests for one
\* key apart, and a body the validators reject
OverwriteBodies ==
  {[b EXCEPT !.cashCollected = c] : b \in {r \in RaceBodies : r.vehicleId = 1}, c \in {1, 2}}
  \cup {[BaseBody EXCEPT !.invalid = {"cashCollected"}]}

\* all ways to give the six amounts non-negative values that add up to at most n
AmountTuples(n) ==
  {t \in [1..6 -> 0..n] : t[1] + t[2] + t[3] + t[4] + t[5] + t[6] <= n}

AmountBodies ==
  {WithAmounts(BaseBody, t[1], t[2], t[3], t[4], t[5], t[6]) : t \in AmountTuples(MaxTotal)}

\* the amounts used by the repository's own tests of the calculation
ScenarioBodies ==
  {WithAmounts(BaseBody, 5000, 3000, 2000, 500, 300, 200),
   WithAmounts(BaseBody, 1000, 500, 2000, 500, 300, 200),
   WithAmounts(BaseBody, 0, 0, 2000, 500, 300, 200)}

\* one amount below zero
NegativeBodies ==
  {WithAmounts(BaseBody, -1, 0, 0, 0, 0, 0), WithAmounts(BaseBody, 2, 0, 0, -1, 0, 0)}

\* bodies with optional metrics and notes
OptionalBodies ==
  {[BaseBody EXCEPT !.cashCollected = 1, !.totalTrips = t, !.totalDistance = o[1],
                    !.averageRating = o[2], !.notes = o[3]] :
     t \in {None, Some(1), Some(2)},
     o \in {<<None, None, None>>, <<Some(1), Some(1), Some("a")>>,
            <<Some(2), Some(2), Some("b")>>}}

\* bodies that also carry derived values, which the handler does not read
DerivedBodies ==
  {[BaseBody EXCEPT !.cashCollected = c, !.totalRevenue = d[1], !.totalDeductions = d[2],
                    !.netProfit = d[3], !.profitMargin = d[4]] :
     c \in {1, 2},
     d \in {<<Some(7), None, None, None>>, <<None, Some(7), None, None>>,
            <<None, None, Some(7), None>>, <<None, None, None, Some(7)>>,
            <<Some(7), Some(7), Some(7), Some(7)>>}}

\* bodies with every week end, an unknown vehicle, and failed validators
DateBodies ==
  {[BaseBody EXCEPT !.weekEndDate = e] : e \in Dates}
  \cup {[BaseBody EXCEPT !.vehicleId = MaxVehicles]}
  \cup {[BaseBody EXCEPT !.invalid = {f}] : f \in {"vehicleId", "weekEndDate", "otherExpenses"}}

\* non-negative amounts with deductions above twice the revenue
LossBodies ==
  {WithAmounts(BaseBody, 1000, 0, 3000, 0, 0, 0), WithAmounts(BaseBody, 1, 0, 0, 0, 0, 4)}

LedgerBodies ==
  AmountBodies \cup ScenarioBodies \cup NegativeBodies \cup OptionalBodies
  \cup DerivedBodies \cup DateBodies \cup LossBodies

----------------------------------------------------------------------------
(* Specifications *)

\* POST /api/vehicles by an administrator in slot p, for the given numbers
VehicleCreation(p, numbers) ==
  \/ \E n \in numbers : VehiclePostStart(p, "ADMIN", Some(n), None)
  \/ VehiclePostFind(p)
  \/ VehiclePostCreate(p)
  \/ VehicleFinish(p)

\* the registration and deletion of a vehicle, the deletion of an entry and
\* two POST /api/weekly-data requests in flight
Next ==
  \/ VehicleCreation(1, {"ab1"})
  \/ \E v \in VehicleRefs : DeleteVehicle(v)
  \/ \E p \in Procs, b \in RaceBodies : UpsertStart(p, b)
  \/ \E p \in Procs : UpsertFindVehicle(p)
  \/ \E p \in Procs : UpsertFindExisting(p)
  \/ \E p \in Procs : UpsertUpdate(p)
  \/ \E p \in Procs : UpsertCreate(p)
  \/ \E p \in Procs : UpsertFinish(p)
  \/ \E i \in 1..MaxEntries : DeleteWeeklyEntry(i)

Spec == Init /\ [][Next]_vars

\* vehicle creation and POST /api/weekly-data, two requests in flight, and the
\* submitting user deleting the account meanwhile
NextUpserts ==
  \/ VehicleCreation(1, {"ab1"})
  \/ \E p \in Procs, b \in OverwriteBodies : UpsertStart(p, b)
  \/ \E p \in Procs : UpsertFindVehicle(p)
  \/ \E p \in Procs : UpsertFindExisting(p)
  \/ \E p \in Procs : UpsertUpdate(p)
  \/ \E p \in Procs : UpsertCreate(p)
  \/ \E p \in Procs : UpsertFinish(p)
  \/ DeleteAccountStart(1, "u1", "DELETE MY ACCOUNT")
  \/ DeleteAccountLog(1)
  \/ DeleteAccountEntries(1)
  \/ DeleteAccountConsents(1)
  \/ DeleteAccountRequests(1)
  \/ DeleteAccountUser(1)

SpecUpserts == Init /\ [][NextUpserts]_vars

\* one request at a time, over the wide range of bodies for one ledger key
NextLedger ==
  \/ pc[1] = "idle" /\ VehicleCreation(1, {"ab1"})
  \/ vreq[1] = NoVehicleReq /\ \E b \in LedgerBodies : UpsertStart(1, b)
  \/ UpsertFindVehicle(1)
  \/ UpsertFindExisting(1)
  \/ UpsertUpdate(1)
  \/ UpsertCreate(1)
  \/ UpsertFinish(1)
  \/ \E i \in 1..MaxEntries : DeleteWeeklyEntry(i)

SpecLedger == Init /\ [][NextLedger]_vars

\* the days on which the retention job runs: the cutoff falls on, between and
\* after the stored weeks
CleanupDays == {WEEKLY_DATA + d : d \in 1..(MaxDate + 1)}

\* every operation that writes the ledger store or the accounts, one POST
\* /api/weekly-data and one account request at a time; the job runs at
\* midnight and at 2 AM
NextRetention ==
  \/ pc[1] = "idle" /\ authReq[1] = NoAuthReq /\ VehicleCreation(1, {"ab1"})
  \/ \E v \in VehicleRefs : DeleteVehicle(v)
  \/ \E b \in RaceBodies : UpsertStart(1, b)
  \/ UpsertFindVehicle(1)
  \/ UpsertFindExisting(1)
  \/ UpsertUpdate(1)
  \/ UpsertCreate(1)
  \/ UpsertFinish(1)
  \/ \E i \in 1..MaxEntries : DeleteWeeklyEntry(i)
  \/ \E u \in Users, c \in {"DELETE MY ACCOUNT", "yes"} : DeleteAccountStart(1, u, c)
  \/ DeleteAccountLog(1)
  \/ DeleteAccountEntries(1)
  \/ DeleteAccountConsents(1)
  \/ DeleteAccountRequests(1)
  \/ DeleteAccountUser(1)
  \/ \E u \in Users, w \in {"short", "secret"} : RegisterStart(1, u, w)
  \/ RegisterFindUser(1)
  \/ RegisterSalt(1)
  \/ RegisterHash(1)
  \/ RegisterCreate(1)
  \/ RegisterLogged(1)
  \/ AuthFinish(1)
  \/ \E now \in CleanupDays, hour \in {0, 2} : CleanupOldWeeklyData(now, hour)

SpecRetention == Init /\ [][NextRetention]_vars

\* The read side is checked over populated tables.  StoredBodies are eight
\* accepted POST bodies for two vehicles: six weeks inside the week 1..7, two
\* of them with the same net profit and two with no revenue, one week in the
\* following week and one that starts in the week and ends after it.
StoredBodies ==
  <<[WithAmounts(BaseBody, 1000, 0, 500, 0, 0, 0) EXCEPT
       !.vehicleId = 1, !.weekStartDate = 1, !.weekEndDate = 7],
    [WithAmounts(BaseBody, 4000, 0, 6000, 0, 0, 0) EXCEPT
       !.vehicleId = 2, !.weekStartDate = 1, !.weekEndDate = 7],
    [WithAmounts(BaseBody, 0, 0, 0, 300, 0, 0) EXCEPT
       !.vehicleId = 1, !.weekStartDate = 2, !.weekEndDate = 3],
    [WithAmounts(BaseBody, 600, 400, 200, 100, 100, 100) EXCEPT
       !.vehicleId = 2, !.weekStartDate = 2, !.weekEndDate = 3],
    [WithAmounts(BaseBody, 0, 2000, 0, 0, 0, 0) EXCEPT
       !.vehicleId = 1, !.weekStartDate = 3, !.weekEndDate = 3],
    [WithAmounts(BaseBody, 0, 0, 0, 0, 0, 0) EXCEPT
       !.vehicleId = 2, !.weekStartDate = 3, !.weekEndDate = 3, !.notes = Some("a")],
    [WithAmounts(BaseBody, 700, 0, 0, 0, 0, 0) EXCEPT
       !.vehicleId = 1, !.weekStartDate = 8, !.weekEndDate = 14],
    [WithAmounts(BaseBody, 900, 0, 0, 0, 0, 0) EXCEPT
       !.vehicleId = 2, !.weekStartDate = 4, !.weekEndDate = 8]>>

\* the entries the store holds after the accepted requests ids
StoreOf(ids) == [i \in ids |-> CreateData(StoredBodies[i], i)]

\* the vehicle table: vehicle 1 is CD2, active or inactive, and vehicle 2 is
\* AB1, active or in maintenance
VehicleTables ==
  {[v \in S |-> [vehicleNumber |-> IF v = 1 THEN "CD2" ELSE "AB1", status |-> st[v]]] :
     S \in SUBSET {1, 2},
     st \in {f \in [{1, 2} -> VehicleStatuses] :
               f[1] \in {"ACTIVE", "INACTIVE"} /\ f[2] \in {"ACTIVE", "MAINTENANCE"}}}

\* the tables after a run of vehicle registrations and accepted submissions
InitPopulated ==
  /\ vehicles \in VehicleTables
  /\ weeklyData \in {StoreOf(ids) : ids \in SUBSET DOMAIN StoredBodies}
  /\ \A i \in DOMAIN weeklyData : weeklyData[i].vehicleId \in DOMAIN vehicles
  /\ \A i \in DOMAIN weeklyData :
       RowsWithKey(weeklyData, weeklyData[i].vehicleId, weeklyData[i].weekStartDate) = {i}
  /\ pc = [p \in Procs |-> "idle"]
  /\ req = [p \in Procs |-> BaseBody]
  /\ existingData = [p \in Procs |-> 0]
  /\ resp = [p \in Procs |-> NoResp]
  /\ replaced = [p \in Procs |-> None]
  /\ users = Users
  /\ read = NoRead
  /\ InitRoutes

\* The read side is checked over every populated table; under a read request
\* rows are deleted by the handlers of one query.  The requests of several
\* queries run beside the reads in SpecRace.
RowsDeleted ==
  \/ \E v \in VehicleRefs : DeleteVehicle(v)
  \/ \E i \in DOMAIN StoredBodies : DeleteWeeklyEntry(i)

\* GET /api/dashboard/stats on day 10 for the windows starting on day 1 and
\* day 2 and, without weekStart, for the current week 8..14
NextStats ==
  \/ \E w \in {None, Some(1), Some(2)} : StatsStart(w, 10)
  \/ StatsCountAll
  \/ StatsCountActive
  \/ StatsFindMany
  \/ ReadFinish
  \/ read # NoRead /\ read.pc # "done" /\ RowsDeleted

SpecStats == InitPopulated /\ [][NextStats]_vars

\* GET /api/dashboard/trends for the whole fleet, each vehicle and an unknown
\* vehicle, with the default and with 0 to MaxWeeks weeks
NextTrends ==
  \/ \E v \in {None, Some(1), Some(2), Some(3)}, w \in {None} \cup {Some(n) : n \in 0..MaxWeeks} :
       GetTrends(v, w)
  \/ ReadFinish

SpecTrends == InitPopulated /\ [][NextTrends]_vars

\* the report is checked over the tables that hold any of these entries
ReportEntries == {1, 2, 3, 5, 7, 8}

InitReport == InitPopulated /\ DOMAIN weeklyData \subseteq ReportEntries

\* GET /api/reports/weekly-excel on day 10 for the week of day 2, with and
\* without a weekEnd of its own, and for the current week
NextReport ==
  \/ \E w \in {<<None, None>>, <<Some(2), None>>, <<Some(2), Some(3)>>, <<Some(2), Some(8)>>} :
       ReportStart(w[1], w[2], 10)
  \/ ReportFindVehicles
  \/ ReportFindData
  \/ ReadFinish
  \/ read # NoRead /\ read.pc # "done" /\ RowsDeleted

SpecReport == InitReport /\ [][NextReport]_vars

\* GET /api/reports/vehicle-excel/:vehicleId for each vehicle and an unknown
\* one, with and without the two dates and with a start that is no date
NextVehicleReport ==
  \/ \E v \in {1, 2, 3}, s \in {None, Some(InvalidDate), Some(1)}, e \in {None, Some(7), Some(14)} :
       VehicleReportStart(v, s, e)
  \/ VehicleReportFindVehicle
  \/ VehicleReportFindData
  \/ VehicleReportStorageFails
  \/ ReadFinish
  \/ read # NoRead /\ read.pc # "done" /\ RowsDeleted

\* the requests to /api/vehicles in the slots procs by users with the roles
VehicleRequests(procs, roles) ==
  \/ \E p \in procs, r \in roles,
        b \in {<<Some(n), None>> : n \in RegNumbers}
              \cup {<<None, None>>, <<Some("ab1"), Some("retired")>>} :
       VehiclePostStart(p, r, b[1], b[2])
  \/ \E p \in procs : VehiclePostFind(p)
  \/ \E p \in procs : VehiclePostCreate(p)
  \/ \E p \in procs, r \in roles, v \in {1, 2},
        b \in {<<Some(n), None>> : n \in RegNumbers} \cup {<<None, Some("inactive")>>} :
       VehiclePutStart(p, r, v, b[1], b[2])
  \/ \E p \in procs : VehiclePutFind(p)
  \/ \E p \in procs : VehiclePutConflict(p)
  \/ \E p \in procs : VehiclePutUpdate(p)
  \/ \E p \in procs, r \in roles, v \in {1, 2} : VehicleDelete(p, r, v)
  \/ \E p \in procs : VehicleFinish(p)

\* two requests at a time, by administrators
NextVehicles == VehicleRequests(Procs, {"ADMIN"})

SpecVehicles == Init /\ [][NextVehicles]_vars

\* one request at a time, by users of every role
NextRoles == VehicleRequests({1}, Roles)

SpecRoles == Init /\ [][NextRoles]_vars

SpecVehicleReport == InitPopulated /\ [][NextVehicleReport]_vars

\* a submission for the week of stored entry 1 with another cash amount
ResubmittedBodies == {[StoredBodies[1] EXCEPT !.cashCollected = 2000]}

\* the requests that change the tables under a read request: an administrator
\* deletes a vehicle or an entry, sets the status of a vehicle and registers a
\* vehicle, and a user submits a week
TablesChange ==
  \/ \E v \in VehicleRefs : DeleteVehicle(v)
  \/ \E v \in VehicleRefs, s \in {"active", "inactive"} :
       VehiclePutStart(1, "ADMIN", v, None, Some(s))
  \/ VehiclePutFind(1)
  \/ VehiclePutConflict(1)
  \/ VehiclePutUpdate(1)
  \/ VehicleCreation(1, {"ab1"})
  \/ \E i \in DOMAIN StoredBodies : DeleteWeeklyEntry(i)
  \/ \E b \in ResubmittedBodies : UpsertStart(1, b)
  \/ UpsertFindVehicle(1)
  \/ UpsertFindExisting(1)
  \/ UpsertUpdate(1)
  \/ UpsertCreate(1)
  \/ UpsertFinish(1)

\* the tables of the first two stored entries
InitRace == InitPopulated /\ DOMAIN weeklyData \subseteq {1, 2}

\* the read requests that make several queries, for the week of day 1, beside
\* the requests that change the tables
NextRace ==
  \/ StatsStart(Some(1), 10)
  \/ StatsCountAll
  \/ StatsCountActive
  \/ StatsFindMany
  \/ ReportStart(Some(2), None, 10)
  \/ ReportFindVehicles
  \/ ReportFindData
  \/ \E v \in {1, 3} : VehicleReportStart(v, Some(1), Some(7))
  \/ VehicleReportFindVehicle
  \/ VehicleReportFindData
  \/ ReadFinish
  \/ read # NoRead /\ read.pc # "done" /\ TablesChange

SpecRace == InitRace /\ [][NextRace]_vars

\* forgot-password for the address of an account and for an address of no
\* account, reset-password with any token generated so far and registration
\* of the address, two requests at a time; the account changes its password
\* in slot 1 and deletes itself in slot 2
NextAuth ==
  \/ \E p \in Procs, e \in {"u1@example.com", "nobody@example.com"} : ForgotStart(p, e)
  \/ \E p \in Procs : ForgotFindUser(p)
  \/ \E p \in Procs : ForgotStoreToken(p)
  \/ \E p \in Procs : ForgotEmailSent(p)
  \/ \E p \in Procs : ForgotEmailFails(p)
  \/ \E p \in Procs, t \in 1..issued :
       ResetStart(p, t, IF p = 1 THEN "password1" ELSE "password2")
  \/ \E t \in 1..issued : ResetStart(1, t, "pw1")
  \/ \E p \in Procs : ResetFindUser(p)
  \/ \E p \in Procs : ResetUpdate(p)
  \/ DeleteAccountStart(2, "u1", "DELETE MY ACCOUNT")
  \/ DeleteAccountLog(2)
  \/ DeleteAccountEntries(2)
  \/ DeleteAccountConsents(2)
  \/ DeleteAccountRequests(2)
  \/ DeleteAccountUser(2)
  \/ \E p \in Procs : RegisterStart(p, "u1", "secret")
  \/ \E p \in Procs : RegisterFindUser(p)
  \/ \E p \in Procs : RegisterSalt(p)
  \/ \E p \in Procs : RegisterHash(p)
  \/ \E p \in Procs : RegisterCreate(p)
  \/ \E p \in Procs : RegisterLogged(p)
  \/ \E c \in {"secret", "wrong"} : ChangePasswordStart(1, "u1", c, "changed1")
  \/ ChangePasswordCompare(1)
  \/ ChangePasswordSalt(1)
  \/ ChangePasswordHash(1)
  \/ ChangePasswordUpdate(1)
  \/ \E p \in Procs : AuthFinish(p)
  \/ Tick

SpecAuth == Init /\ [][NextAuth]_vars

\* the five read operations, one request at a time, over every populated table
NextReads ==
  \/ \E w \in {None, Some(1)} : StatsStart(w, 10)
  \/ StatsCountAll
  \/ StatsCountActive
  \/ StatsFindMany
  \/ \E v \in {None, Some(1), Some(3)}, w \in {None, Some(1)} : GetTrends(v, w)
  \/ \E v \in {None, Some(1), Some(3)}, s \in {None, Some(2)}, e \in {None, Some(7)} :
       GetWeeklyEntries(v, s, e)
  \/ GetWeeklyEntriesFails
  \/ \E w \in {<<None, None>>, <<Some(2), Some(8)>>} : ReportStart(w[1], w[2], 10)
  \/ ReportFindVehicles
  \/ ReportFindData
  \/ \E v \in {1, 3}, s \in {None, Some(InvalidDate), Some(1)}, e \in {None, Some(7)} :
       VehicleReportStart(v, s, e)
  \/ VehicleReportFindVehicle
  \/ VehicleReportFindData
  \/ VehicleReportStorageFails
  \/ ReadFinish

SpecReads == InitPopulated /\ [][NextReads]_vars

----------------------------------------------------------------------------
(* Properties of the ledger store *)

SameKey(a, b) == a.vehicleId = b.vehicleId /\ a.weekStartDate = b.weekStartDate

Succeeded(p) == pc[p] = "done" /\ resp[p].status \in {200, 201}

\* slot p completes its database write in this step and answers 200 or 201
WriteSucceeds(p) ==
  pc[p] = "write" /\ pc'[p] = "done" /\ resp'[p].status \in {200, 201}

\* C1: in every reachable state there is at most one stored entry for each
\* (vehicleId, weekStartDate) pair.
C1_OneEntryPerKey ==
  \A i, j \in DOMAIN weeklyData : SameKey(weeklyData[i], weeklyData[j]) => i = j

\* the unique index has turned down the insert of a request that lost the race
C1_Witness ==
  \E p \in Procs :
    /\ pc[p] = "done"
    /\ resp[p].error = "P2002"
    /\ RowsWithKey(weeklyData, req[p].vehicleId, req[p].weekStartDate) # {}

\* C2: every stored entry has totalRevenue = cashCollected + onlineEarnings,
\* totalDeductions = dieselExpense + tollsParking + maintenanceRepairs +
\* otherExpenses, and netProfit = totalRevenue - totalDeductions.
C2_DerivedTotals ==
  \A i \in DOMAIN weeklyData :
    LET e == weeklyData[i] IN
      /\ e.totalRevenue = e.cashCollected + e.onlineEarnings
      /\ e.totalDeductions =
           e.dieselExpense + e.tollsParking + e.maintenanceRepairs + e.otherExpenses
      /\ e.netProfit = e.totalRevenue - e.totalDeductions

\* an overwrite has stored an entry with all four expenses and a negative profit
C2_Witness ==
  \E p \in Procs :
    /\ Succeeded(p)
    /\ resp[p].status = 200
    /\ \E i \in DOMAIN weeklyData :
         /\ Some(weeklyData[i]) = resp[p].data
         /\ weeklyData[i].netProfit < 0
         /\ weeklyData[i].dieselExpense > 0 /\ weeklyData[i].tollsParking > 0
         /\ weeklyData[i].maintenanceRepairs > 0 /\ weeklyData[i].otherExpenses > 0

\* the number n / d * 100 for any d # 0, as a fraction in lowest terms
Percent(n, d) == IF d < 0 THEN Frac((-n) * 100, -d) ELSE Frac(n * 100, d)

\* C3: for every stored entry, profitMargin is 0 when totalRevenue is 0 and
\* otherwise equals netProfit / totalRevenue * 100.
C3_ProfitMargin ==
  \A i \in DOMAIN weeklyData :
    LET e == weeklyData[i] IN
      e.profitMargin = IF e.totalRevenue = 0 THEN Zero
                       ELSE Percent(e.netProfit, e.totalRevenue)

\* the raw and derived fields and the week end of row e are those of body b
RawAndDerivedFrom(e, b) ==
  /\ e.weekEndDate = b.weekEndDate
  /\ e.cashCollected = b.cashCollected
  /\ e.onlineEarnings = b.onlineEarnings
  /\ e.dieselExpense = b.dieselExpense
  /\ e.tollsParking = b.tollsParking
  /\ e.maintenanceRepairs = b.maintenanceRepairs
  /\ e.otherExpenses = b.otherExpenses
  /\ e.totalRevenue = b.cashCollected + b.onlineEarnings
  /\ e.totalDeductions =
       b.dieselExpense + b.tollsParking + b.maintenanceRepairs + b.otherExpenses
  /\ e.netProfit = e.totalRevenue - e.totalDeductions
  /\ e.profitMargin = IF e.totalRevenue > 0 THEN Percent(e.netProfit, e.totalRevenue)
                      ELSE Zero

\* C4 as claimed: after a successful submission B for (V, W) exactly one entry
\* is stored for (V, W) and it equals B in every raw, derived, optional-metric
\* and notes field; an optional field that B omits is empty afterwards.
C4_FullOverwrite ==
  [][\A p \in Procs :
       WriteSucceeds(p) =>
         LET rows == RowsWithKey(weeklyData', req[p].vehicleId, req[p].weekStartDate) IN
           /\ Cardinality(rows) = 1
           /\ \A i \in rows :
                /\ RawAndDerivedFrom(weeklyData'[i], req[p])
                /\ weeklyData'[i].totalTrips = req[p].totalTrips
                /\ weeklyData'[i].totalDistance = req[p].totalDistance
                /\ weeklyData'[i].averageRating = req[p].averageRating
                /\ weeklyData'[i].notes = req[p].notes]_vars

\* C5: when two requests for the same key have both been answered, both were
\* answered without an error, exactly one entry is stored for the key and its
\* values are those of one of the two requests.
C5_ConcurrentUpsertsSucceed ==
  \A p, q \in Procs :
    ( /\ p # q
      /\ pc[p] = "done" /\ pc[q] = "done"
      /\ SameKey(req[p], req[q])
      /\ resp[p].status \notin {400, 404} /\ resp[q].status \notin {400, 404} )
    => LET rows == RowsWithKey(weeklyData, req[p].vehicleId, req[p].weekStartDate) IN
         /\ resp[p].status \in {200, 201}
         /\ resp[q].status \in {200, 201}
         /\ Cardinality(rows) = 1
         /\ \A i \in rows : \/ RawAndDerivedFrom(weeklyData[i], req[p])
                            \/ RawAndDerivedFrom(weeklyData[i], req[q])

\* C6: a request whose vehicle reference resolves to no vehicle is answered
\* 404 at the vehicle lookup and the ledger store is left as it was.
C6_UnknownVehicleNotFound ==
  [][\A p \in Procs :
       ( /\ pc[p] = "findVehicle"
         /\ pc'[p] # "findVehicle"
         /\ req[p].vehicleId \notin DOMAIN vehicles )
       => /\ pc'[p] = "done"
          /\ resp'[p].status = 404
          /\ weeklyData' = weeklyData]_vars

\* a request for a vehicle that does not exist was answered 404 while entries
\* are stored
C6_Witness ==
  \E p \in Procs :
    /\ pc[p] = "done"
    /\ resp[p].status = 404
    /\ req[p].vehicleId \notin DOMAIN vehicles
    /\ weeklyData # <<>>

RawAmounts(b) ==
  {b.cashCollected, b.onlineEarnings, b.dieselExpense, b.tollsParking,
   b.maintenanceRepairs, b.otherExpenses}

\* C7: a request with a negative amount is answered 400 before anything else
\* happens, and no stored entry has a negative raw amount.
C7_NegativeAmountRejected ==
  /\ \A p \in Procs :
       (pc[p] # "idle" /\ \E a \in RawAmounts(req[p]) : a < 0)
       => (pc[p] = "done" /\ resp[p].status = 400)
  /\ \A i \in DOMAIN weeklyData : \A a \in RawAmounts(weeklyData[i]) : a >= 0

\* C8: a request whose week end is before its week start is answered 400 and
\* every stored entry has weekEndDate >= weekStartDate.
C8_WeekEndNotBeforeStart ==
  /\ \A p \in Procs :
       (pc[p] # "idle" /\ req[p].weekEndDate < req[p].weekStartDate)
       => (pc[p] = "done" /\ resp[p].status = 400)
  /\ \A i \in DOMAIN weeklyData : weeklyData[i].weekEndDate >= weeklyData[i].weekStartDate

\* body b repeats what row e holds in every field a request can set, derived
\* values aside
RepeatsRow(b, e) ==
  /\ b.vehicleId = e.vehicleId
  /\ b.weekStartDate = e.weekStartDate
  /\ b.weekEndDate = e.weekEndDate
  /\ b.cashCollected = e.cashCollected
  /\ b.onlineEarnings = e.onlineEarnings
  /\ b.dieselExpense = e.dieselExpense
  /\ b.tollsParking = e.tollsParking
  /\ b.maintenanceRepairs = e.maintenanceRepairs
  /\ b.otherExpenses = e.otherExpenses
  /\ b.totalTrips \in {None, e.totalTrips}
  /\ b.totalDistance \in {None, e.totalDistance}
  /\ b.averageRating \in {None, e.averageRating}
  /\ b.notes \in {None, e.notes}
  /\ b.user = e.submittedBy

SuppliesDerived(b) ==
  b.totalRevenue # None \/ b.totalDeductions # None \/ b.netProfit # None
  \/ b.profitMargin # None

\* C9: a request that agrees with the request that wrote the stored entry on
\* vehicle, dates, raw amounts, metrics and notes stores the identical entry,
\* whatever derived values either of them supplied.
C9_SuppliedDerivedIgnored ==
  \A p \in Procs :
    (Succeeded(p) /\ replaced[p] # None /\ RepeatsRow(req[p], replaced[p][1]))
    => resp[p].data = replaced[p]

\* a request that supplied derived values other than the computed ones has
\* rewritten the entry of an agreeing request
C9_Witness ==
  \E p \in Procs :
    /\ Succeeded(p)
    /\ replaced[p] # None
    /\ RepeatsRow(req[p], replaced[p][1])
    /\ req[p].totalRevenue # None
    /\ req[p].totalRevenue # Some(resp[p].data[1].totalRevenue)
    /\ req[p].netProfit # None
    /\ resp[p].data[1].totalRevenue > 0

\* the ids of the rows that a step adds, removes or changes
TouchedRows ==
  {i \in DOMAIN weeklyData \cup DOMAIN weeklyData' :
     \/ i \notin DOMAIN weeklyData
     \/ i \notin DOMAIN weeklyData'
     \/ weeklyData[i] # weeklyData'[i]}

\* C10: a step of a request for key (V, W) writes at most one entry, leaves
\* every entry with another key as it was and leaves every vehicle as it was.
C10_UpsertFrame ==
  [][\A p \in Procs :
       pc'[p] # pc[p] =>
         /\ vehicles' = vehicles
         /\ Cardinality(TouchedRows) <= 1
         /\ \A i \in TouchedRows :
              /\ pc[p] = "write"
              /\ i \in DOMAIN weeklyData'
              /\ SameKey(weeklyData'[i], req[p])
              /\ i \in DOMAIN weeklyData => SameKey(weeklyData[i], req[p])]_vars

\* an entry was overwritten while an entry with another key was stored
C10_Witness ==
  \E p \in Procs :
    /\ Succeeded(p)
    /\ resp[p].status = 200
    /\ replaced[p] # None
    /\ \E i \in DOMAIN weeklyData : ~SameKey(weeklyData[i], req[p])

\* C11: a stored entry leaves the store only in a step that is
\* DeleteWeeklyEntry on its id or the deletion of its owning vehicle.
C11_EntryLeavesOnlyByDelete ==
  [][\A i \in DOMAIN weeklyData :
       i \notin DOMAIN weeklyData' =>
         DeleteWeeklyEntry(i) \/ DeleteVehicle(weeklyData[i].vehicleId)]_vars

\* C12: every stored entry references an existing vehicle, whatever the
\* interleaving of vehicle deletions with the steps of the POST requests.
C12_EntryHasVehicle ==
  \A i \in DOMAIN weeklyData : weeklyData[i].vehicleId \in DOMAIN vehicles

\* the vehicle was there when the request looked it up and was deleted before
\* the request wrote: the insert failed on the foreign key
C12_Witness ==
  \E p \in Procs :
    /\ pc[p] = "done"
    /\ resp[p].error = "P2003"
    /\ req[p].vehicleId \notin DOMAIN vehicles
    /\ C12_EntryHasVehicle

----------------------------------------------------------------------------
(* Properties of GET /api/dashboard/stats *)

\* the step in which the statistics request reads the entries and answers
StatsAnswers == read.op = "stats" /\ read.pc = "count" /\ read'.pc = "done"

\* the stored entries inside the window of the statistics request
WindowEntries ==
  {i \in DOMAIN weeklyData :
     weeklyData[i].weekStartDate >= read.startDate /\ weeklyData[i].weekEndDate <= read.endDate}

\* the sum of a field over the stored entries ids
RECURSIVE SetSum(_, _)
SetSum(ids, field) ==
  IF ids = {} THEN 0
  ELSE LET i == CHOOSE j \in ids : TRUE
       IN  weeklyData[i][field] + SetSum(ids \ {i}, field)

\* C13: averageProfitMargin is summed net profit / summed revenue * 100 when
\* the summed revenue is above 0, and 0 when the summed revenue is 0.
C13_AverageMarginOfSums ==
  [][StatsAnswers =>
       LET revenue == SetSum(WindowEntries, "totalRevenue")
           profit == SetSum(WindowEntries, "netProfit")
       IN  /\ revenue > 0 => read'.averageProfitMargin = Percent(profit, revenue)
           /\ revenue = 0 => read'.averageProfitMargin = Zero]_vars

\* entries 1000/500 and 4000/-2000 were summed: the margins 50 and -50 have
\* the mean 0 and the answer is -30
C13_Witness ==
  /\ read.op = "stats" /\ read.pc = "done"
  /\ read.weeklyRevenue = 5000 /\ read.weeklyProfit = -1500
  /\ read.averageProfitMargin = <<-30, 1>>

\* the stored entries of vehicle v inside the window
WindowEntriesOf(v) == {i \in WindowEntries : weeklyData[i].vehicleId = v}

\* the sum of a field over the window entries of the vehicles vs
RECURSIVE FleetSum(_, _)
FleetSum(vs, field) ==
  IF vs = {} THEN 0
  ELSE LET v == CHOOSE w \in vs : TRUE
       IN  SetSum(WindowEntriesOf(v), field) + FleetSum(vs \ {v}, field)

\* C14: totalVehicles counts every vehicle and activeVehicles every vehicle
\* with status active, with or without entries; the sums are the vehicles'
\* sums, 0 for a vehicle without an entry in the window.
C14_VehicleCounts ==
  [][/\ (read.op = "stats" /\ read.pc = "count" /\ read'.totalVehicles # read.totalVehicles)
        => read'.totalVehicles = Some(Cardinality(DOMAIN vehicles))
     /\ (read.op = "stats" /\ read.pc = "count" /\ read'.activeVehicles # read.activeVehicles)
        => read'.activeVehicles =
             Some(Cardinality({v \in DOMAIN vehicles : vehicles[v].status = "ACTIVE"}))
     /\ StatsAnswers =>
          /\ read'.weeklyRevenue = FleetSum(DOMAIN vehicles, "totalRevenue")
          /\ read'.weeklyProfit = FleetSum(DOMAIN vehicles, "netProfit")]_vars

\* two vehicles were counted, one of them active, one vehicle has no entry in
\* the window and the other has revenue
C14_Witness ==
  /\ read.op = "stats" /\ read.pc = "done"
  /\ read.totalVehicles = Some(2) /\ read.activeVehicles = Some(1)
  /\ Cardinality(DOMAIN vehicles) = 2
  /\ \E v \in DOMAIN vehicles : WindowEntriesOf(v) = {}
  /\ read.weeklyRevenue > 0

\* C15: weeklyRevenue and weeklyProfit are the sums over exactly the stored
\* entries with weekStartDate >= window start and weekEndDate <= window end.
C15_WindowSums ==
  [][StatsAnswers =>
       /\ read'.weeklyRevenue = SetSum(WindowEntries, "totalRevenue")
       /\ read'.weeklyProfit = SetSum(WindowEntries, "netProfit")]_vars

\* a vehicle has several entries in the window, another entry starts in the
\* window and ends after it, a third lies in the next week
C15_Witness ==
  /\ read.op = "stats" /\ read.pc = "done"
  /\ \E v \in DOMAIN vehicles : Cardinality(WindowEntriesOf(v)) >= 2
  /\ \E i \in DOMAIN weeklyData \ WindowEntries :
       weeklyData[i].weekStartDate >= read.startDate
  /\ \E i \in DOMAIN weeklyData \ WindowEntries :
       weeklyData[i].weekEndDate <= read.endDate
  /\ read.weeklyRevenue = SetSum(WindowEntries, "totalRevenue")

\* C16 as claimed: the leaderboard has at most 5 entries and every entry has
\* a greater net profit than the next.
C16_LeaderboardStrictlyDescending ==
  [][StatsAnswers =>
       /\ Len(read'.topPerformers) <= 5
       /\ \A k \in 1..(Len(read'.topPerformers) - 1) :
            read'.topPerformers[k].profit > read'.topPerformers[k + 1].profit]_vars

\* C16 as amended: the leaderboard has at most 5 entries and no entry has a
\* smaller net profit than the next; entries with equal net profit are kept.
C16_LeaderboardDescending ==
  [][StatsAnswers =>
       /\ Len(read'.topPerformers) <= 5
       /\ Len(read'.topPerformers) <= Cardinality(WindowEntries)
       /\ \A k \in 1..(Len(read'.topPerformers) - 1) :
            read'.topPerformers[k].profit >= read'.topPerformers[k + 1].profit]_vars

\* six entries matched, five are listed, two of them with the same profit
C16_Witness ==
  /\ read.op = "stats" /\ read.pc = "done"
  /\ Cardinality(WindowEntries) = 6
  /\ Len(read.topPerformers) = 5
  /\ \E k \in 1..4 : read.topPerformers[k].profit = read.topPerformers[k + 1].profit
  /\ \E k \in 1..4 : read.topPerformers[k].profit > read.topPerformers[k + 1].profit

----------------------------------------------------------------------------
(* Properties of GET /api/dashboard/trends *)

\* the trend request is answered in this step
TrendsAnswers == read = NoRead /\ read'.op = "trends"

\* the stored entries the request is about
TrendCandidates ==
  {i \in DOMAIN weeklyData :
     read'.vehicleId # None => weeklyData[i].vehicleId = read'.vehicleId[1]}

\* what the answer exposes of a stored entry
Exposed(i) ==
  [week |-> weeklyData[i].weekStartDate, revenue |-> weeklyData[i].totalRevenue,
   profit |-> weeklyData[i].netProfit, deductions |-> weeklyData[i].totalDeductions,
   profitMargin |-> weeklyData[i].profitMargin]

\* items lists the entries chosen, each as often as it is chosen
ListsExactly(items, chosen) ==
  /\ Len(items) = Cardinality(chosen)
  /\ \A i \in chosen :
       Cardinality({k \in DOMAIN items : items[k] = Exposed(i)})
         = Cardinality({j \in chosen : Exposed(j) = Exposed(i)})

\* C17: the answer lists N of the candidate entries (all when there are fewer)
\* such that no entry left out has a later week start than a listed one,
\* oldest first, with the stored week start, revenue, profit, deductions and
\* margin of each.
C17_TrendNewestAscending ==
  [][TrendsAnswers =>
       /\ \A k \in 1..(Len(read'.trends) - 1) :
            read'.trends[k].week <= read'.trends[k + 1].week
       /\ \E chosen \in SUBSET TrendCandidates :
            /\ Cardinality(chosen) =
                 (IF Cardinality(TrendCandidates) < read'.take
                  THEN Cardinality(TrendCandidates) ELSE read'.take)
            /\ \A i \in chosen, j \in TrendCandidates \ chosen :
                 weeklyData[i].weekStartDate >= weeklyData[j].weekStartDate
            /\ ListsExactly(read'.trends, chosen)]_vars

\* two of a vehicle's three or more entries are listed, older one first, and
\* another vehicle has entries too
C17_Witness ==
  /\ read.op = "trends" /\ read.pc = "done"
  /\ read.vehicleId = Some(1) /\ read.take = 2
  /\ Cardinality({i \in DOMAIN weeklyData : weeklyData[i].vehicleId = 1}) >= 3
  /\ \E i \in DOMAIN weeklyData : weeklyData[i].vehicleId = 2
  /\ Len(read.trends) = 2
  /\ read.trends[1].week < read.trends[2].week

----------------------------------------------------------------------------
(* Properties of the weekly fleet report *)

\* the step in which the report reads the vehicles
ReportReadsVehicles == read.op = "report" /\ read.pc = "vehicles" /\ read'.pc = "data"

\* the step in which the report reads the entries and is written
ReportWritten == read.op = "report" /\ read.pc = "data" /\ read'.pc = "done"

\* C18: the report has exactly one data row for each vehicle that is active
\* when the vehicles are read, with or without an entry in the window, and no
\* row for any other vehicle.
C18_RowPerActiveVehicle ==
  [][/\ ReportReadsVehicles =>
          /\ \A v \in DOMAIN vehicles :
               Cardinality({k \in DOMAIN read'.fleet : read'.fleet[k].id = v})
                 = (IF vehicles[v].status = "ACTIVE" THEN 1 ELSE 0)
          /\ \A k \in DOMAIN read'.fleet : read'.fleet[k].id \in DOMAIN vehicles
     /\ ReportWritten =>
          /\ Len(read'.rows) = Len(read.fleet)
          /\ \A k \in DOMAIN read.fleet :
               read'.rows[k].vehicleNumber = read.fleet[k].vehicleNumber]_vars

\* the report has a row for an active vehicle without entries and none for
\* a vehicle in maintenance that has entries in the window
C18_Witness ==
  /\ read.op = "report" /\ read.pc = "done"
  /\ Len(read.rows) = 1
  /\ \E v \in DOMAIN vehicles :
       /\ vehicles[v].status = "ACTIVE"
       /\ read.rows[1].vehicleNumber = vehicles[v].vehicleNumber
       /\ \A i \in DOMAIN weeklyData : weeklyData[i].vehicleId # v
  /\ \E v \in DOMAIN vehicles :
       /\ vehicles[v].status = "MAINTENANCE"
       /\ \E i \in DOMAIN weeklyData :
            /\ weeklyData[i].vehicleId = v
            /\ weeklyData[i].weekStartDate >= read.weekStart
            /\ weeklyData[i].weekEndDate <= read.weekEnd

\* the sum of a column over the data rows
RECURSIVE ColumnSum(_, _)
ColumnSum(rows, field) ==
  IF rows = <<>> THEN 0 ELSE rows[1][field] + ColumnSum(Tail(rows), field)

\* C19: every monetary cell of the totals row is the sum of its column over
\* the data rows of the report.
C19_TotalsAreColumnSums ==
  (read.op = "report" /\ read.pc = "done") =>
    \A f \in MoneyColumns : read.totals[f] = ColumnSum(read.rows, f)

\* the report has a zero-filled row and a row of a vehicle with several
\* entries in the window, and a vehicle that is not active has entries too
C19_Witness ==
  /\ read.op = "report" /\ read.pc = "done"
  /\ Len(read.rows) = 2
  /\ \E k \in 1..2 : read.rows[k].totalRevenue = 0 /\ read.rows[3 - k].totalRevenue > 0
  /\ read.totals.totalRevenue > 0
  /\ \E v \in DOMAIN vehicles :
       /\ vehicles[v].status = "ACTIVE"
       /\ Cardinality({i \in DOMAIN weeklyData :
                         /\ weeklyData[i].vehicleId = v
                         /\ weeklyData[i].weekStartDate >= read.weekStart
                         /\ weeklyData[i].weekEndDate <= read.weekEnd}) >= 2

\* the listed vehicle has no stored entry inside the window of the report
NoEntryInWindow(v) ==
  \A i \in DOMAIN weeklyData :
    weeklyData[i].vehicleId = v =>
      ~(weeklyData[i].weekStartDate >= read.weekStart /\ weeklyData[i].weekEndDate <= read.weekEnd)

\* C20: a listed vehicle without an entry in the window has a data row with
\* every monetary field 0 and margin 0; when it is the only vehicle listed
\* the totals row has the same values; an empty roster gives no data row and
\* all-zero totals.
C20_ZeroRows ==
  [][ReportWritten =>
       /\ Len(read'.rows) = Len(read.fleet)
       /\ \A k \in DOMAIN read.fleet :
            NoEntryInWindow(read.fleet[k].id) =>
              /\ \A f \in MoneyColumns : read'.rows[k][f] = 0
              /\ read'.rows[k].profitMargin = Zero
              /\ Len(read.fleet) = 1 =>
                   /\ \A f \in MoneyColumns : read'.totals[f] = read'.rows[k][f]
                   /\ read'.overallProfitMargin = read'.rows[k].profitMargin
       /\ read.fleet = <<>> =>
            /\ read'.rows = <<>>
            /\ \A f \in MoneyColumns : read'.totals[f] = 0
            /\ read'.overallProfitMargin = Zero]_vars

\* the one vehicle of the fleet is active and has entries, none of them in
\* the window: the report has its zero row and zero totals
C20_Witness ==
  /\ read.op = "report" /\ read.pc = "done"
  /\ Cardinality(DOMAIN vehicles) = 1
  /\ Len(read.rows) = 1
  /\ \A v \in DOMAIN vehicles : vehicles[v].status = "ACTIVE" /\ NoEntryInWindow(v)
  /\ weeklyData # <<>>
  /\ \A f \in MoneyColumns : read.rows[1][f] = 0 /\ read.totals[f] = 0
  /\ read.overallProfitMargin = Zero

\* C30: in every answer of GET /api/dashboard/stats activeVehicles is at most
\* totalVehicles, also when vehicles are created, change status or are
\* deleted between the two count queries of the request.
C30_ActiveAtMostTotal ==
  (read.op = "stats" /\ read.pc = "done") => read.activeVehicles[1] <= read.totalVehicles[1]

\* the six raw amounts of a stored entry
RawFields ==
  {"cashCollected", "onlineEarnings", "dieselExpense", "tollsParking",
   "maintenanceRepairs", "otherExpenses"}

\* C28: every stored entry whose raw amounts are all non-negative has a
\* profitMargin between -100 and 100 inclusive.
C28_MarginWithinHundred ==
  \A i \in DOMAIN weeklyData :
    (\A f \in RawFields : weeklyData[i][f] >= 0) =>
      /\ weeklyData[i].profitMargin[1] >= -100 * weeklyData[i].profitMargin[2]
      /\ weeklyData[i].profitMargin[1] <= 100 * weeklyData[i].profitMargin[2]

\* the entries GET /api/dashboard/stats sums for the week starting on weekStart
StatsRowsOfWeek(weekStart) ==
  LET order == CHOOSE o \in ScanOrders(FindManyInWindow(weeklyData, weekStart,
                                                        EndOfWeek(weekStart))) : TRUE
  IN  [k \in DOMAIN order |-> weeklyData[order[k]]]

\* C29: for the same tables and the same requested week start, week end
\* derived, the totals row of the weekly report has the total revenue and the
\* total net profit that the statistics return as weeklyRevenue and
\* weeklyProfit, and the overall margin is averageProfitMargin.  Stated for a
\* requested week start that is a Monday, with the roster of the report read
\* from the present vehicle table.
C29_ReportTotalsAreStats ==
  [][(/\ ReportWritten
      /\ read.weekEnd = EndOfWeek(read.weekStart)
      /\ read.fleet \in {OrderedByNumber(vehicles, ReportWhere(vehicles))})
     => /\ read'.totals.totalRevenue = SumField(StatsRowsOfWeek(read.weekStart), "totalRevenue")
        /\ read'.totals.netProfit = SumField(StatsRowsOfWeek(read.weekStart), "netProfit")
        /\ read'.overallProfitMargin = AverageProfitMargin(StatsRowsOfWeek(read.weekStart))]_vars

----------------------------------------------------------------------------
(* Properties of GET /api/reports/vehicle-excel/:vehicleId *)

\* the step in which the vehicle report is answered its vehicle lookup
VehicleReportLooksUp == read.op = "vehicleReport" /\ read.pc = "vehicle" /\ read' # read

\* C21: a vehicle report whose vehicle reference resolves to no vehicle fails
\* as a whole: the request is answered an error at once and no workbook,
\* partial or empty, is ever sent for it.
C21_UnknownVehicleNoWorkbook ==
  [][/\ (VehicleReportLooksUp /\ read.vehicleId \notin DOMAIN vehicles)
        => /\ read'.pc = "done"
           /\ read'.workbook = None
           /\ read'.answer.status >= 400
     /\ (read'.op = "vehicleReport" /\ read'.workbook # None)
        => read'.vehicle # None /\ read'.answer = VehicleReportSent]_vars

\* the report was asked with both dates for a vehicle that does not exist,
\* while entries of other vehicles are stored: answered 500, no workbook
C21_Witness ==
  /\ read.op = "vehicleReport" /\ read.pc = "done"
  /\ read.vehicleId \notin DOMAIN vehicles
  /\ read.startDate = Some(1) /\ read.endDate = Some(7)
  /\ weeklyData # <<>>
  /\ read.answer = VehicleReportFailure("Vehicle not found")
  /\ read.workbook = None

\* the outcome a caller receives: the status code and the message
Outcome(answer) == <<answer.status, answer.message>>

\* C22, for GenerateVehicleReport: the outcome the caller receives for a
\* vehicle reference that is not found differs from the outcome for an
\* invalid request, from the outcome for a storage failure and from a valid
\* empty report.
C22_NotFoundIsDistinct ==
  (read.op = "vehicleReport" /\ read.pc = "done" /\ read.cause = "not found") =>
    /\ Outcome(read.answer) # Outcome(VehicleReportBadRequest)
    /\ Outcome(read.answer) # Outcome(VehicleReportFailure("Can't reach database server"))
    /\ Outcome(read.answer) # Outcome(VehicleReportSent)

----------------------------------------------------------------------------
(* Properties of the read operations *)

\* C23: the statistics, the trend, the listing of entries, the weekly report
\* and the vehicle report are read-only: every step of such a request,
\* answered with a result or with an error, leaves the stored vehicles and
\* entries, and every field of each, as they were.
C23_ReadsAreReadOnly ==
  [][(read' # read /\ (IF read = NoRead THEN read' ELSE read).op
                        \in {"stats", "trends", "entries", "report", "vehicleReport"})
     => (vehicles' = vehicles /\ weeklyData' = weeklyData)]_vars

\* a listing of entries that failed and a vehicle report that was written,
\* over tables that hold vehicles and entries
C23_Witness ==
  /\ vehicles # <<>> /\ weeklyData # <<>>
  /\ read # NoRead /\ read.pc = "done"
  /\ \/ read.op = "entries" /\ read.status = 500
     \/ read.op = "vehicleReport" /\ read.workbook # None /\ read.workbook # Some(<<>>)

----------------------------------------------------------------------------
(* Properties of /api/vehicles *)

\* the registration numbers of the model written in upper case
UpperCaseNumbers == {"AB1", "CD2"}

\* the number of the request in slot p is held by a vehicle other than id
HeldByOther(p, id) ==
  \E v \in DOMAIN vehicles \ {id} :
    vehicles[v].vehicleNumber = ToUpperCase(vreq[p].vehicleNumber[1])

\* the request in slot p is answered 400 and the vehicles are as before
Rejected400(p) ==
  /\ vreq'[p].pc = "done"
  /\ vreq'[p].answer = [status |-> 400, message |-> "Vehicle with this number already exists"]
  /\ vehicles' = vehicles

\* C24: no two stored vehicles have the same registration number and every
\* stored number is upper-case; a create or an update that finds its number,
\* upper-cased, held by another vehicle is answered 400 and changes nothing.
C24_NumbersUniqueUpperCase ==
  [][/\ \A v, w \in DOMAIN vehicles' :
          v # w => vehicles'[v].vehicleNumber # vehicles'[w].vehicleNumber
     /\ \A v \in DOMAIN vehicles' : vehicles'[v].vehicleNumber \in UpperCaseNumbers
     /\ \A p \in Procs :
          /\ (vreq[p].op = "post" /\ vreq[p].pc = "find" /\ vreq'[p] # vreq[p]
              /\ HeldByOther(p, 0))
             => Rejected400(p)
          /\ (vreq[p].op = "put" /\ vreq[p].pc = "find" /\ vreq'[p] # vreq[p]
              /\ vreq[p].id \in DOMAIN vehicles /\ vreq[p].vehicleNumber # None
              /\ HeldByOther(p, vreq[p].id))
             => vreq'[p].pc = "conflict" /\ vehicles' = vehicles
          /\ (vreq[p].op = "put" /\ vreq[p].pc = "conflict" /\ vreq'[p] # vreq[p]
              /\ HeldByOther(p, vreq[p].id))
             => Rejected400(p)]_vars

\* vehicle 1 was to be renumbered "ab1" while the other vehicle is AB1, and a
\* POST for "ab1" was made as well: both were answered 400
C24_Witness ==
  /\ Cardinality(DOMAIN vehicles) = 2
  /\ vreq[1].op = "put" /\ vreq[1].pc = "done" /\ vreq[1].answer.status = 400
  /\ vreq[1].vehicleNumber = Some("ab1")
  /\ vreq[1].id \in DOMAIN vehicles /\ vehicles[vreq[1].id].vehicleNumber = "CD2"
  /\ vreq[2].op = "post" /\ vreq[2].pc = "done" /\ vreq[2].answer.status = 400
  /\ vreq[2].vehicleNumber = Some("ab1")

\* a request to /api/vehicles arrives in slot p
VehicleRequestArrives(p) == vreq[p] = NoVehicleReq /\ vreq'[p] # NoVehicleReq

\* C25: the mutating vehicle routes are gated by role: ADMIN and MANAGER
\* pass to the handlers of create and update, only ADMIN passes to delete,
\* and a request by any other role is answered 403 'Insufficient permissions'
\* and leaves the vehicles and their entries unchanged.
C25_RoleGate ==
  [][\A p \in Procs :
       VehicleRequestArrives(p) =>
         IF \/ vreq'[p].op \in {"post", "put"} /\ vreq'[p].role \in {"ADMIN", "MANAGER"}
            \/ vreq'[p].op = "delete" /\ vreq'[p].role = "ADMIN"
         THEN /\ vreq'[p].answer.status # 403
              /\ vreq'[p].op \in {"post", "put"} =>
                   (vreq'[p].pc = "find" \/ vreq'[p].answer = ValidationFailed)
              /\ (vreq'[p].op = "delete" /\ vreq'[p].id \in DOMAIN vehicles)
                 => (vreq'[p].answer.status = 200 /\ vreq'[p].id \notin DOMAIN vehicles')
         ELSE /\ vreq'[p].pc = "done"
              /\ vreq'[p].answer = [status |-> 403, message |-> "Insufficient permissions"]
              /\ vehicles' = vehicles /\ weeklyData' = weeklyData]_vars

\* a manager asked to delete a vehicle that exists and was answered 403
C25_Witness ==
  /\ vreq[1].op = "delete" /\ vreq[1].role = "MANAGER" /\ vreq[1].pc = "done"
  /\ vreq[1].id \in DOMAIN vehicles
  /\ vreq[1].answer = [status |-> 403, message |-> "Insufficient permissions"]

----------------------------------------------------------------------------
(* Properties of the password reset *)

\* the reset-password request in slot p has succeeded after this step
ResetSucceededNext(p) ==
  authReq'[p].op = "reset" /\ authReq'[p].pc = "done" /\ authReq'[p].answer.status = 200

\* C26: a reset token is single-use: of the reset-password requests with the
\* same token at most one succeeds, whether they come one after the other or
\* run at the same time; and once a new token is stored for a user, no other
\* token finds that user.
C26_TokenSingleUse ==
  [][/\ \A p, q \in Procs :
          (p # q /\ ResetSucceededNext(p) /\ ResetSucceededNext(q))
            => authReq'[p].token # authReq'[q].token
     /\ \A p \in Procs :
          (authReq[p].op = "forgot" /\ authReq[p].pc = "store" /\ authReq'[p].pc = "email")
            => \A t \in (1..issued) \ {authReq[p].token} :
                 accounts'[authReq[p].user[1]].resetToken # Some(Sha256(t))]_vars

\* C27: the answer of forgot-password, status code and message, for a valid
\* email address is the one given when no account has the address, whether
\* an account exists or not and however the sending of the email ends.
C27_ForgotAnswerGeneric ==
  \A p \in Procs :
    (authReq[p].op = "forgot" /\ authReq[p].pc = "done") => authReq[p].answer = ForgotGeneric

====
